---- MODULE Spec2Model ----
(***************************************************************************)
(* Model of the request-execution engine of the patch-client Rust client   *)
(* (clients/rust/src/client.rs): the Auth Store, the login calls, the      *)
(* refresh protocol and the single-retry-on-401 executor loops, run by     *)
(* concurrent callers against a server whose answers are nondeterministic, *)
(* and the pure path functions (encode_path_segment, Client::url).         *)
(***************************************************************************)
EXTENDS Integers, Sequences, FiniteSets, TLC

(***************************************************************************)
(* Bounds of the model.                                                    *)
(***************************************************************************)
\* Tokens the server can hand out are 1..MaxToken.
MaxToken == 2
\* Logical calls started over one behaviour.
MaxCalls == 2
\* Pieces an input text of the path functions is made of.
MaxAtoms == 3
\* Accesses to the Auth Store started over one behaviour of the lock model.
MaxOps == 3
\* Chunks a response body arrives in.
MaxChunks == 3
\* Characters of the body of a text response.
MaxBody == 4
\* Pairs of a query.
MaxPairs == 2
\* The most bytes of a response body the client buffers (client.rs 19, where
\* it is 10 << 20), scaled down.
DEFAULT_MAX_RESPONSE_BYTES == 3

\* Concurrent callers sharing one Client handle (Client is Clone, auth is an Arc).
Callers == {"c1", "c2"}

Tokens == 1..MaxToken
AccountTypes == {"manager", "viewer"}
\* HTTP statuses the server answers with: success, the two auth failures, and
\* one other failure.
Statuses == {200, 401, 403, 500}
\* Titles a problem document can carry.
Titles == {"refresh failed"}

(***************************************************************************)
(* Auth Store content: Option<AuthState>.                                  *)
(***************************************************************************)
None == [some |-> FALSE, token |-> 0, account_type |-> ""]
AuthState(t, a) == [some |-> TRUE, token |-> t, account_type |-> a]
Sessions == {None} \cup {AuthState(t, a) : t \in Tokens, a \in AccountTypes}

(***************************************************************************)
(* Errors (error.rs) and results of a logical call.                        *)
(***************************************************************************)
Pending == [kind |-> "pending", status |-> 0, title |-> ""]
Ok == [kind |-> "Ok", status |-> 0, title |-> ""]
ErrRequest == [kind |-> "Request", status |-> 0, title |-> ""]
ErrSerialization == [kind |-> "Serialization", status |-> 0, title |-> ""]
ErrResponseTooLarge == [kind |-> "ResponseTooLarge", status |-> 0, title |-> ""]
ErrUnauthorized == [kind |-> "Unauthorized", status |-> 0, title |-> ""]
ErrApi(s) == [kind |-> "Api", status |-> s, title |-> ""]
ErrApiProblem(s, t) == [kind |-> "ApiProblem", status |-> s, title |-> t]

(***************************************************************************)
(* What the network can deliver for one request.  io is how far the        *)
(* exchange got: "send_error" is a transport failure or timeout before a   *)
(* status arrived, "body_error" one while the body was read, "too_large" a *)
(* body over DEFAULT_MAX_RESPONSE_BYTES.  problem says whether the body    *)
(* parses as ErrorModel (with or without a title), decodes whether it      *)
(* parses as the type the call expects; token and account_type are the     *)
(* fields of a decoded auth body.                                          *)
(***************************************************************************)
IoOutcomes == {"ok", "send_error", "body_error", "too_large"}
Problems == {"titled", "untitled", "none"}

Response(io, s, pr, ti, d, t, a) ==
    [io |-> io, status |-> s, problem |-> pr, title |-> ti, decodes |-> d,
     token |-> t, account_type |-> a]

\* No status arrived.
SendError == Response("send_error", 0, "none", "", FALSE, 0, "")

\* A status arrived and the body was not read to its end.  (The content of a
\* body that is not read, and the problem shape of a 2xx body, are never
\* looked at: they are left out of the enumeration.)
BrokenBodies ==
    {Response(io, s, "none", "", FALSE, 0, "") :
        io \in {"body_error", "too_large"}, s \in Statuses}

\* A status other than 2xx with a body that was read.
FailureResponses ==
    {Response("ok", s, pr, IF pr = "titled" THEN ti ELSE "", FALSE, 0, "") :
        s \in {x \in Statuses : x < 200 \/ x >= 300}, pr \in Problems, ti \in Titles}

\* Answers to a request whose decoded body carries no auth data.
PlainResponses ==
    {SendError} \cup BrokenBodies \cup FailureResponses
    \cup {Response("ok", 200, "none", "", d, 0, "") : d \in BOOLEAN}

\* Answers of the refresh endpoint: a decoded AuthBody carries a token.
RefreshResponses ==
    {SendError} \cup BrokenBodies \cup FailureResponses
    \cup {Response("ok", 200, "none", "", FALSE, 0, "")}
    \cup {Response("ok", 200, "none", "", TRUE, t, "") : t \in Tokens}

\* Answers of a login endpoint: a decoded body carries a token and, for the
\* v3 endpoint, the account type.
LoginResponses ==
    {SendError} \cup BrokenBodies \cup FailureResponses
    \cup {Response("ok", 200, "none", "", FALSE, 0, "")}
    \cup {Response("ok", 200, "none", "", TRUE, t, a) :
            t \in Tokens, a \in AccountTypes}

NoResponse == Response("none", 0, "none", "", FALSE, 0, "")
\* What a call has seen of a response whose body it does not read.
StatusOnly(resp) == Response("ok", resp.status, "none", "", FALSE, 0, "")

IsSuccess(s) == s >= 200 /\ s < 300

(***************************************************************************)
(* Client::api_error                                                       *)
(***************************************************************************)
api_error(status, body) ==
    IF body.problem # "none"
    THEN ErrApiProblem(status,
                       IF body.problem = "titled" THEN body.title ELSE "API Error")
    ELSE ErrApi(status)

\* Client::read_body_limited followed by the decode of a 2xx body or the
\* classification of any other status, in the call k (361-367, 405-416,
\* 925-931).  execute_text returns every 2xx body as text: it
\* has no decode that can fail.
ReadAndClassify(k, resp) ==
    CASE resp.io = "body_error" -> ErrRequest
      [] resp.io = "too_large" -> ErrResponseTooLarge
      [] OTHER -> IF IsSuccess(resp.status)
                  THEN (IF resp.decodes \/ k = "execute_text" THEN Ok
                        ELSE ErrSerialization)
                  ELSE api_error(resp.status, resp)

(***************************************************************************)
(* The logical calls.                                                      *)
(***************************************************************************)
LoginKinds == {"login", "login_v2_manager", "login_v2_viewer"}
ExecKinds == {"execute_json", "execute_text", "upload_plant_file_v3"}
Kinds == LoginKinds \cup ExecKinds \cup {"refresh_token"}

\* execute_json passes (allow_refresh_on_401, include_auth) = (true, true),
\* execute_json_unauth_no_refresh passes (false, false); execute_text and
\* upload_plant_file_v3 always read the store and always allow the refresh.
\* Mutant: every call, the logins included, attaches the stored session.
include_auth_always(k) == k \in Kinds
include_auth(k) == k \in ExecKinds
allow_refresh_on_401(k) == k \in ExecKinds

(***************************************************************************)
(* Texts.  A character is a one-character string and a text a sequence of  *)
(* characters; a byte is a number.                                         *)
(***************************************************************************)
Lower ==
    {"a", "b", "c", "d", "e", "f", "g", "h", "i", "j", "k", "l", "m",
     "n", "o", "p", "q", "r", "s", "t", "u", "v", "w", "x", "y", "z"}
Upper ==
    {"A", "B", "C", "D", "E", "F", "G", "H", "I", "J", "K", "L", "M",
     "N", "O", "P", "Q", "R", "S", "T", "U", "V", "W", "X", "Y", "Z"}
Digits == {"0", "1", "2", "3", "4", "5", "6", "7", "8", "9"}

\* The printable ASCII characters, bytes 32 to 126 in order (the grave accent
\* is written by its code point).
Ascii ==
    <<" ", "!", "\"", "#", "$", "%", "&", "'", "(", ")", "*", "+", ",",
      "-", ".", "/", "0", "1", "2", "3", "4", "5", "6", "7", "8", "9", ":",
      ";", "<", "=", ">", "?", "@", "A", "B", "C", "D", "E", "F", "G", "H",
      "I", "J", "K", "L", "M", "N", "O", "P", "Q", "R", "S", "T", "U", "V",
      "W", "X", "Y", "Z", "[", "\\", "]", "^", "_", "U+0060", "a", "b", "c",
      "d", "e", "f", "g", "h", "i", "j", "k", "l", "m", "n", "o", "p", "q",
      "r", "s", "t", "u", "v", "w", "x", "y", "z", "{", "|", "}", "~">>

\* U+FFFD, what decode_utf8_lossy puts for bytes that are not UTF-8.
Replacement == "U+FFFD"

\* The character of an ASCII byte (the control characters other than tab,
\* line feed and carriage return are not told apart).
Chr(n) ==
    CASE n >= 32 /\ n <= 126 -> Ascii[n - 31]
      [] n = 9 -> "\t"
      [] n = 10 -> "\n"
      [] n = 13 -> "\r"
      [] OTHER -> "C0"

\* The byte of an ASCII character.
OrdTable ==
    [c \in {Chr(n) : n \in 0..127} |-> CHOOSE n \in 0..127 : Chr(n) = c]
Ord(c) == OrdTable[c]

Range(s) == {s[i] : i \in DOMAIN s}
Min(S) == CHOOSE x \in S : \A y \in S : x <= y
DropFirst(s, n) == SubSeq(s, n + 1, Len(s))

\* str::contains
Contains(s, pat) ==
    \E i \in 1..(Len(s) - Len(pat) + 1) : SubSeq(s, i, i + Len(pat) - 1) = pat

\* str::split on any of the separators.
RECURSIVE Split(_, _)
Split(s, seps) ==
    LET at == {i \in DOMAIN s : s[i] \in seps} IN
    IF at = {} THEN <<s>>
    ELSE <<SubSeq(s, 1, Min(at) - 1)>> \o Split(DropFirst(s, Min(at)), seps)

\* str::trim_start_matches and its counterpart at the end.
RECURSIVE TrimStart(_, _)
TrimStart(s, set) ==
    IF s # <<>> /\ s[1] \in set THEN TrimStart(Tail(s), set) ELSE s
RECURSIVE TrimEnd(_, _)
TrimEnd(s, set) ==
    IF s # <<>> /\ s[Len(s)] \in set
    THEN TrimEnd(SubSeq(s, 1, Len(s) - 1), set) ELSE s

HexDigits ==
    <<"0", "1", "2", "3", "4", "5", "6", "7", "8", "9", "A", "B", "C", "D", "E", "F">>
IsHex(c) == c \in Digits \cup {"a", "b", "c", "d", "e", "f", "A", "B", "C", "D", "E", "F"}
HexVal(c) ==
    IF c \in Digits THEN Ord(c) - 48
    ELSE IF c \in Upper THEN Ord(c) - 55 ELSE Ord(c) - 87

(***************************************************************************)
(* percent_encoding::percent_decode_str and Cow::decode_utf8_lossy (132):  *)
(* a '%' followed by two hex digits of either case becomes the byte they   *)
(* write, anything else stands for itself; bytes outside ASCII come out as *)
(* the replacement character (never as an ASCII character).                *)
(***************************************************************************)
RECURSIVE percent_decode_str(_)
percent_decode_str(s) ==
    IF s = <<>> THEN <<>>
    ELSE IF s[1] = "%" /\ Len(s) >= 3 /\ IsHex(s[2]) /\ IsHex(s[3])
         THEN <<16 * HexVal(s[2]) + HexVal(s[3])>> \o percent_decode_str(DropFirst(s, 3))
         ELSE <<Ord(s[1])>> \o percent_decode_str(Tail(s))

decode_utf8_lossy(bytes) ==
    [i \in DOMAIN bytes |-> IF bytes[i] < 128 THEN Chr(bytes[i]) ELSE Replacement]

\* percent_encoding::percent_encode_byte: "%XX" with upper-case digits.
percent_encode_byte(b) == <<"%", HexDigits[(b \div 16) + 1], HexDigits[(b % 16) + 1]>>

\* Mutant: '.' is passed through, as an RFC 3986 unreserved character.
RECURSIVE encode_path_segment_dot_unreserved(_)
encode_path_segment_dot_unreserved(segment) ==
    IF segment = <<>> THEN <<>>
    ELSE (IF segment[1] \in Lower \cup Upper \cup Digits \cup {"-", "_", "~", "."}
          THEN <<segment[1]>>
          ELSE percent_encode_byte(Ord(segment[1])))
         \o encode_path_segment_dot_unreserved(Tail(segment))

(***************************************************************************)
(* Client::encode_path_segment (60-70)                                     *)
(***************************************************************************)
RECURSIVE encode_path_segment(_)
encode_path_segment(segment) ==
    IF segment = <<>> THEN <<>>
    ELSE (IF segment[1] \in Lower \cup Upper \cup Digits \cup {"-", "_", "~"}
          THEN <<segment[1]>>
          ELSE percent_encode_byte(Ord(segment[1])))
         \o encode_path_segment(Tail(segment))

(***************************************************************************)
(* URLs: scheme, host (with the port, if any) and the path as the list of  *)
(* its segments ("/proxy/" is <<"proxy", "">>).                            *)
(***************************************************************************)
Url(scheme, host, path) == [scheme |-> scheme, host |-> host, path |-> path]
NoUrl == Url(<<>>, <<>>, <<>>)
UrlOk(u) == [kind |-> "Ok", url |-> u]
\* Error::InvalidPath, and Error::Url made from url::ParseError.
ErrInvalidPath == [kind |-> "InvalidPath", url |-> NoUrl]
ErrUrl == [kind |-> "Url", url |-> NoUrl]

Slashes == {"/", "\\"}
SpecialSchemes ==
    {<<"h", "t", "t", "p">>, <<"h", "t", "t", "p", "s">>, <<"w", "s">>,
     <<"w", "s", "s">>, <<"f", "t", "p">>}

ToLower(c) == IF c \in Upper THEN Chr(Ord(c) + 32) ELSE c

\* The url crate's view of its input: C0 controls and spaces are trimmed at
\* both ends, and tabs and newlines are dropped wherever they are.
NotTabOrNewline(c) == c \notin {"\t", "\n", "\r"}
UrlInput(s) ==
    SelectSeq(TrimEnd(TrimStart(s, {" ", "\t", "\n", "\r", "C0"}),
                      {" ", "\t", "\n", "\r", "C0"}),
              NotTabOrNewline)

\* The place of the ':' that ends a scheme at the head of s, or 0.
SchemeEnd(s) ==
    LET colons == {i \in DOMAIN s : s[i] = ":"} IN
    IF s = <<>> \/ s[1] \notin Lower \cup Upper \/ colons = {} THEN 0
    ELSE IF \A j \in 1..(Min(colons) - 1) :
                s[j] \in Lower \cup Upper \cup Digits \cup {"+", "-", "."}
         THEN Min(colons) ELSE 0

IsSingleDot(seg) ==
    [i \in DOMAIN seg |-> ToLower(seg[i])] \in {<<".">>, <<"%", "2", "e">>}
IsDoubleDot(seg) ==
    [i \in DOMAIN seg |-> ToLower(seg[i])] \in
        {<<".", ".">>, <<".", "%", "2", "e">>, <<"%", "2", "e", ".">>,
         <<"%", "2", "e", "%", "2", "e">>}

\* The path percent-encode set, as far as the characters of a segment go.
RECURSIVE PathEncode(_)
PathEncode(seg) ==
    IF seg = <<>> THEN <<>>
    ELSE (IF seg[1] \in {" ", "\"", "<", ">", "U+0060", "{", "}"}
          THEN percent_encode_byte(Ord(seg[1])) ELSE <<seg[1]>>)
         \o PathEncode(Tail(seg))

Pop(path) == IF path = <<>> THEN path ELSE SubSeq(path, 1, Len(path) - 1)

\* The path state of the URL parser over the segments still to read: a
\* single-dot segment is skipped, a double-dot segment removes the last
\* segment of the path so far, and either leaves an empty segment when it
\* ends the input.
RECURSIVE PathState(_, _)
PathState(path, todo) ==
    IF todo = <<>> THEN path
    ELSE LET seg == Head(todo)
             last == Len(todo) = 1
             next == CASE IsDoubleDot(seg) ->
                            IF last THEN Append(Pop(path), <<>>) ELSE Pop(path)
                       [] IsSingleDot(seg) ->
                            IF last THEN Append(path, <<>>) ELSE path
                       [] OTHER -> Append(path, PathEncode(seg))
         IN PathState(next, Tail(todo))

\* The input up to its query or fragment.
BeforeQuery(s) ==
    LET at == {i \in DOMAIN s : s[i] \in {"?", "#"}} IN
    IF at = {} THEN s ELSE SubSeq(s, 1, Min(at) - 1)

ParsePath(path, s) == PathState(path, Split(BeforeQuery(s), Slashes))

\* The authority of a special URL and what follows it: the host ends at the
\* first slash, '?' or '#', an empty host or a host with a forbidden
\* character is a parse error, a port is made of digits.  (Credentials are
\* not modelled: no input of the model holds an '@'.)
ParseAuthority(scheme, s) ==
    LET ends == {i \in DOMAIN s : s[i] \in Slashes \cup {"?", "#"}}
        e == IF ends = {} THEN Len(s) + 1 ELSE Min(ends)
        authority == SubSeq(s, 1, e - 1)
        colons == {i \in DOMAIN authority : authority[i] = ":"}
        h == IF colons = {} THEN authority
             ELSE SubSeq(authority, 1, Min(colons) - 1)
        port == IF colons = {} THEN <<>> ELSE DropFirst(authority, Min(colons))
        host == decode_utf8_lossy(percent_decode_str(h))
        rest == DropFirst(s, e - 1)
    IN  IF \/ host = <<>>
           \/ Range(host) \cap {" ", "#", "%", "/", ":", "<", ">", "?", "@", "[",
                                "\\", "]", "^", "|", "\t", "\n", "\r", "C0",
                                Replacement} # {}
           \/ ~(Range(port) \subseteq Digits)
        THEN ErrUrl
        ELSE UrlOk(Url(scheme,
                       [i \in DOMAIN host |-> ToLower(host[i])]
                          \o (IF port = <<>> THEN <<>> ELSE <<":">> \o port),
                       ParsePath(<<>>, IF rest # <<>> /\ rest[1] \in Slashes
                                       THEN Tail(rest) ELSE rest)))

\* A reference without a scheme of its own, resolved against base.
ParseRelative(base, s) ==
    IF s = <<>> \/ s[1] \in {"?", "#"} THEN UrlOk(base)
    ELSE IF s[1] \in Slashes
         THEN IF Len(s) - Len(TrimStart(s, Slashes)) >= 2
              THEN ParseAuthority(base.scheme, TrimStart(s, Slashes))
              ELSE UrlOk(Url(base.scheme, base.host, ParsePath(<<>>, Tail(s))))
         ELSE UrlOk(Url(base.scheme, base.host, ParsePath(Pop(base.path), s)))

(***************************************************************************)
(* Url::join, called at client.rs 139: the input is parsed as a URL        *)
(* reference against the base URL.  An input with a scheme of its own is   *)
(* an absolute URL, unless the scheme is the base's (a special one) and    *)
(* fewer than two slashes follow it.  Of a URL with a scheme that is not   *)
(* special only the scheme is modelled.                                    *)
(***************************************************************************)
join(base, input) ==
    LET s == UrlInput(input)
        e == SchemeEnd(s)
        scheme == [i \in 1..(e - 1) |-> ToLower(s[i])]
        rest == DropFirst(s, e)
    IN  IF e = 0 THEN ParseRelative(base, s)
        ELSE IF scheme \in SpecialSchemes
             THEN IF scheme = base.scheme
                       /\ Len(rest) - Len(TrimStart(rest, Slashes)) < 2
                  THEN ParseRelative(base, rest)
                  ELSE ParseAuthority(scheme, TrimStart(rest, Slashes))
             ELSE UrlOk(Url(scheme, <<>>, <<rest>>))

\* Mutant: the segment is tested as written, without decoding it.
UnsafeSegment_undecoded(segment) ==
    \/ segment \in {<<".">>, <<".", ".">>}
    \/ "/" \in Range(segment)
    \/ "\\" \in Range(segment)

\* The test Client::url applies to every segment (131-136).
UnsafeSegment(segment) ==
    LET decoded == decode_utf8_lossy(percent_decode_str(segment)) IN
    \/ decoded \in {<<".">>, <<".", ".">>}
    \/ "/" \in Range(decoded)
    \/ "\\" \in Range(decoded)

\* Mutant: one leading separator is stripped, as strip_prefix would.
url_strip_prefix(base, path) ==
    LET p == IF path # <<>> /\ path[1] = "/" THEN Tail(path) ELSE path
        segments == Split(p, {"/"})
    IN  IF Contains(p, <<":", "/", "/">>) THEN ErrInvalidPath
        ELSE IF \E i \in DOMAIN segments : UnsafeSegment(segments[i])
             THEN ErrInvalidPath
             ELSE LET joined == join(base, p) IN
                  IF joined.kind = "Ok" THEN joined ELSE ErrUrl

(***************************************************************************)
(* Client::url (126-140)                                                   *)
(***************************************************************************)
url(base, path) ==
    LET p == TrimStart(path, {"/"})
        segments == Split(p, {"/"})
    IN  IF Contains(p, <<":", "/", "/">>) THEN ErrInvalidPath
        ELSE IF \E i \in DOMAIN segments : UnsafeSegment(segments[i])
             THEN ErrInvalidPath
             ELSE LET joined == join(base, p) IN
                  IF joined.kind = "Ok" THEN joined ELSE ErrUrl

(***************************************************************************)
(* Client::url_with_query (431-440) on a path without '?' and '#', as the  *)
(* endpoint wrappers build them, and a list of pairs <<key, value>>.       *)
(* query_pairs_mut gives the URL an empty query to append to, and          *)
(* append_pair writes '&' before every pair but the first and then the key *)
(* and the value in the application/x-www-form-urlencoded byte             *)
(* serialization: letters, digits, '*', '-', '.' and '_' as they are, a    *)
(* space as '+', every other byte as "%XX".                                *)
(***************************************************************************)
RECURSIVE byte_serialize(_)
byte_serialize(text) ==
    IF text = <<>> THEN <<>>
    ELSE (CASE text[1] \in Lower \cup Upper \cup Digits \cup {"*", "-", ".", "_"}
                 -> <<text[1]>>
            [] text[1] = " " -> <<"+">>
            [] OTHER -> percent_encode_byte(Ord(text[1])))
         \o byte_serialize(Tail(text))

\* Mutant: the pair is written as it is.
append_pair_raw(query, k, v) ==
    (IF query = <<>> THEN <<>> ELSE query \o <<"&">>) \o k \o <<"=">> \o v

append_pair(query, k, v) ==
    (IF query = <<>> THEN <<>> ELSE query \o <<"&">>)
        \o byte_serialize(k) \o <<"=">> \o byte_serialize(v)

RECURSIVE append_pairs(_, _)
append_pairs(query, pairs) ==
    IF pairs = <<>> THEN query
    ELSE append_pairs(append_pair(query, pairs[1][1], pairs[1][2]), Tail(pairs))

url_with_query(base, path, query) ==
    LET u == url(base, path) IN
    IF u.kind = "Ok"
    THEN [kind |-> "Ok", url |-> u.url, query |-> append_pairs(<<>>, query)]
    ELSE u

(***************************************************************************)
(* Client::normalize_base_url (120-124) on the path of the base URL, and   *)
(* the base URL a client is constructed with.                              *)
(***************************************************************************)
normalize_base_url(path) ==
    IF path = <<>> \/ path[Len(path)] # "/" THEN path \o <<"/">> ELSE path

BaseUrl(path) ==
    Url(<<"h", "t", "t", "p", "s">>,
        <<"e", "x", "a", "m", "p", "l", "e", ".", "c", "o", "m">>,
        Split(Tail(normalize_base_url(path)), {"/"}))

\* The path get_plant_v3 builds for a plant id (503).
PlantPath(plant_id) ==
    <<"a", "p", "i", "/", "v", "3", "/", "p", "l", "a", "n", "t", "s", "/">>
        \o encode_path_segment(plant_id)

(***************************************************************************)
(* Inputs of the path functions: the texts made of at most MaxAtoms pieces *)
(* taken from Atoms.                                                       *)
(***************************************************************************)
Atoms ==
    {<<"x">>, <<".">>, <<"/">>, <<"\\">>, <<":">>, <<"%">>, <<"2">>,
     <<"%", "2", "e">>, <<"%", "2", "E">>, <<"%", "2", "F">>, <<"%", "5", "c">>,
     <<"%", "2", "5">>, <<"\t">>, <<" ">>, <<"h", "t", "t", "p", ":">>}

RECURSIVE Texts(_)
Texts(n) ==
    IF n = 0 THEN {<<>>}
    ELSE Texts(n - 1) \cup {a \o t : a \in Atoms, t \in Texts(n - 1)}

BasePaths == {<<"/">>, <<"/", "p">>, <<"/", "p", "/">>}

(***************************************************************************)
(* JSON documents (serde_json::Value).  A member of an object is absent,   *)
(* null, a string, a number or an array; s is the text of a string, and    *)
(* for an array the type its elements have the fields of ("" for an empty  *)
(* array).  A document is an object with its members, or a value that is   *)
(* not an object.                                                          *)
(***************************************************************************)
Absent == [t |-> "absent", s |-> ""]
JNull == [t |-> "null", s |-> ""]
JStr(s) == [t |-> "string", s |-> s]
JNum == [t |-> "number", s |-> ""]
\* An integer, with its digits.
JInt(digits) == [t |-> "number", s |-> digits]
JArr(elements) == [t |-> "array", s |-> elements]

Keys == {"title", "status", "detail", "plant_id", "unit", "source", "date",
         "interval", "data", "before"}
NoMembers == [k \in Keys |-> Absent]
JObj(members) == [t |-> "object", s |-> "", m |-> members]
\* A document that is not an object: null, a string, a number, an array.
JValue(v) == [t |-> v.t, s |-> v.s, m |-> NoMembers]

\* value.get(key): the member of an object, nothing for any other value.
Get(doc, key) == IF doc.t = "object" THEN doc.m[key] ELSE Absent
\* Value::as_str
as_str(v) == IF v.t = "string" THEN [some |-> TRUE, s |-> v.s]
             ELSE [some |-> FALSE, s |-> ""]

\* A member deserializes into an Option<String>, an Option<i64>.
IsOptionString(v) == v.t \in {"absent", "null", "string"}
IsOptionNumber(v) == v.t \in {"absent", "null", "number"}

(***************************************************************************)
(* A response body as api_error receives it: a text, which is a JSON       *)
(* document or is not.                                                     *)
(***************************************************************************)
JsonText(doc) == [json |-> TRUE, raw |-> "", doc |-> doc]
RawText(raw) == [json |-> FALSE, raw |-> raw, doc |-> JValue(JNull)]

\* serde_json::from_str::<ErrorModel>(&body) (287; model.rs 569-578): every
\* field of ErrorModel is an Option, members it does not know are ignored,
\* and a member it knows must have its type.  An array is read as the fields
\* in their order, so only an array of the six fields is one; this model
\* has the empty array and the array of six nulls.
ErrorModelParses(body) ==
    /\ body.json
    /\ \/ /\ body.doc.t = "object"
          /\ IsOptionString(Get(body.doc, "title"))
          /\ IsOptionNumber(Get(body.doc, "status"))
          /\ IsOptionString(Get(body.doc, "detail"))
       \/ body.doc.t = "array" /\ body.doc.s = "six nulls"

\* What api_error looks at in a body: whether it is a problem document, and
\* its title when it has one.
Classified(body) ==
    IF ~ErrorModelParses(body) THEN [problem |-> "none", title |-> ""]
    ELSE IF as_str(Get(body.doc, "title")).some
         THEN [problem |-> "titled", title |-> Get(body.doc, "title").s]
         ELSE [problem |-> "untitled", title |-> ""]

\* Mutant: the opaque error quotes the body.
ApiMessage_raw(status, body) == body.raw

\* The message of the opaque Error::Api (298-301).
ApiMessage(status, body) == "upstream error body omitted"

\* Bodies api_error is applied to.
ErrorBodies ==
    {RawText(r) : r \in {"secret=very-sensitive-token", "<html>Bad Gateway</html>"}}
    \cup {JsonText(JValue(v)) :
            v \in {JNull, JStr("refresh failed"), JNum, JArr(""), JArr("six nulls")}}
    \cup {JsonText(JObj([NoMembers EXCEPT !["title"] = ti, !["status"] = st,
                                          !["detail"] = de, !["unit"] = un])) :
            ti \in {Absent, JNull, JStr("refresh failed"), JStr("Bad Request"), JNum},
            st \in {Absent, JNull, JNum, JStr("400"), JInt("401"), JInt("500")},
            de \in {Absent, JStr("invalid input"), JNum},
            un \in {Absent, JStr("panel")}}

(***************************************************************************)
(* impl Deserialize for MetricsBody (model.rs 529-560).                    *)
(***************************************************************************)
MetricsErr == [kind |-> "Err", variant |-> "", doc |-> JValue(JNull)]
MetricsOk(variant, doc) == [kind |-> "Ok", variant |-> variant, doc |-> doc]

\* The match on (unit, interval) (539-559).
Dispatch(unit, interval) ==
    CASE unit.some /\ interval.some /\ unit.s = "panel" /\ interval.s = "5m"
            -> "PanelIntraday"
      [] unit.some /\ interval.some /\ unit.s = "panel" /\ interval.s = "day"
            -> "PanelDaily"
      [] unit.some /\ interval.some /\ unit.s = "inverter" /\ interval.s = "5m"
            -> "InverterIntraday"
      [] unit.some /\ interval.some /\ unit.s = "inverter" /\ interval.s = "day"
            -> "InverterDaily"
      [] unit.some /\ interval.some /\ unit.s = "plant" /\ interval.s = "5m"
            -> "PlantIntraday"
      [] unit.some /\ interval.some /\ unit.s = "plant" /\ interval.s = "day"
            -> "PlantAggregated"
      [] OTHER -> "Unknown"

\* The element type of the data of each variant's body (model.rs 461-518).
ElementType(variant) ==
    CASE variant = "PanelIntraday" -> "PanelData"
      [] variant = "PanelDaily" -> "PanelDailyData"
      [] variant = "InverterIntraday" -> "InverterData"
      [] variant = "InverterDaily" -> "InverterDailyData"
      [] variant = "PlantIntraday" -> "PlantData"
      [] OTHER -> "PlantDailyData"

\* The fields an element type requires (model.rs 403-451); no member of an
\* element is mistyped in this model, and unknown members are ignored.
RequiredFields(element) ==
    CASE element = "PlantData" -> {"date", "energy", "cumulative_energy", "timestamp"}
      [] element = "PlantDailyData" -> {"energy", "date"}
      [] element = "PanelData" ->
            {"id", "date", "timestamp", "energy", "cumulative_energy", "i_out", "p",
             "v_in", "v_out", "temp"}
      [] element = "PanelDailyData" -> {"id", "energy"}
      [] element = "InverterData" -> {"id", "time", "energy", "timestamp"}
      [] element = "InverterDailyData" -> {"id", "date", "energy"}
      [] OTHER -> {}

\* An array whose elements have the fields of type `elements` ("" for the
\* empty array, "junk" for elements that are not objects) deserializes into
\* a Vec of `target`.
ElementsDecode(elements, target) ==
    \/ elements = ""
    \/ elements # "junk" /\ RequiredFields(target) \subseteq RequiredFields(elements)

\* The body struct of a variant deserializes from the document: five
\* required strings, an optional data array, an optional before.
BodyParses(variant, doc) ==
    /\ doc.t = "object"
    /\ \A k \in {"plant_id", "unit", "source", "date", "interval"} :
          Get(doc, k).t = "string"
    /\ \/ Get(doc, "data").t \in {"absent", "null"}
       \/ /\ Get(doc, "data").t = "array"
          /\ ElementsDecode(Get(doc, "data").s, ElementType(variant))
    /\ IsOptionNumber(Get(doc, "before"))

\* Mutant: a body that does not deserialize falls back to Unknown.
from_value_or_unknown(variant, doc) ==
    IF BodyParses(variant, doc) THEN MetricsOk(variant, doc)
    ELSE MetricsOk("Unknown", doc)

\* serde_json::from_value(value).map(MetricsBody::V).map_err(..) (540-557)
from_value(variant, doc) ==
    IF BodyParses(variant, doc) THEN MetricsOk(variant, doc) ELSE MetricsErr

MetricsBody_deserialize(doc) ==
    LET unit == as_str(Get(doc, "unit"))
        interval == as_str(Get(doc, "interval"))
    IN  IF Dispatch(unit, interval) = "Unknown" THEN MetricsOk("Unknown", doc)
        ELSE from_value(Dispatch(unit, interval), doc)

\* Documents the decoder is applied to.
MetricsDocs ==
    {JValue(v) : v \in {JNull, JStr("panel"), JNum, JArr("")}}
    \cup {JObj([NoMembers EXCEPT !["unit"] = un, !["interval"] = iv,
                                 !["plant_id"] = pl, !["data"] = da,
                                 !["source"] = JStr("device"),
                                 !["date"] = JStr("2026-01-01")]) :
            un \in {Absent, JNull, JNum, JStr("panel"), JStr("inverter"),
                    JStr("plant"), JStr("unknown")},
            iv \in {Absent, JNum, JStr("5m"), JStr("day"), JStr("1h")},
            pl \in {Absent, JNum, JStr("p1")},
            da \in {Absent, JNull, JStr("none"), JArr(""), JArr("PanelData"),
                    JArr("InverterData"), JArr("junk")}}

(***************************************************************************)
(* Client::read_body_limited (420-429).  The body arrives in chunks; the   *)
(* byte at offset n of the stream is written n, so that a buffer is known  *)
(* to hold the stream's bytes, in order, by its content.                   *)
(***************************************************************************)
\* Mutant: a body of exactly the maximum is refused.
Exceeds_inclusive(buffered, chunk) == buffered + chunk >= DEFAULT_MAX_RESPONSE_BYTES

\* body.len() + chunk.len() > DEFAULT_MAX_RESPONSE_BYTES (423)
Exceeds(buffered, chunk) == buffered + chunk > DEFAULT_MAX_RESPONSE_BYTES

\* body.extend_from_slice(&chunk) (426), for a chunk of `chunk` bytes.
Extend(body, chunk) == body \o [j \in 1..chunk |-> Len(body) + j]

RECURSIVE Sum(_)
Sum(sizes) == IF sizes = <<>> THEN 0 ELSE Head(sizes) + Sum(Tail(sizes))

\* The sizes of the chunks of a body, in the order they arrive.
RECURSIVE ChunkSizes(_)
ChunkSizes(n) ==
    IF n = 0 THEN {<<>>}
    ELSE ChunkSizes(n - 1)
         \cup {<<c>> \o s : c \in 0..(DEFAULT_MAX_RESPONSE_BYTES + 1),
                            s \in ChunkSizes(n - 1)}

Reading(body, next) == [kind |-> "reading", body |-> body, next |-> next]
ReadOk(body) == [kind |-> "Ok", body |-> body, next |-> 0]
ReadErr(kind, body) == [kind |-> kind, body |-> body, next |-> 0]

(***************************************************************************)
(* Client::new_with_timeout (77-90) on a base URL as Url::parse returns    *)
(* it: its scheme, its host (a domain or an IP address, lower case), its   *)
(* query and its fragment.  A text is a sequence of pieces.                *)
(***************************************************************************)
NoHost == [kind |-> "none", text |-> <<>>]
Domain(name) == [kind |-> "domain", text |-> <<name>>]
Ipv4(addr) == [kind |-> "ipv4", text |-> <<addr>>]
Ipv6(addr) == [kind |-> "ipv6", text |-> <<addr>>]

Ipv4Literals == {"127.0.0.1", "127.8.8.8", "10.0.0.1"}
Ipv6Literals == {"::1", "fe80::1"}

NoText == [some |-> FALSE, text |-> <<>>]
SomeText(text) == [some |-> TRUE, text |-> text]

\* Url::host_str: the host as the URL serializes it, an IPv6 address between
\* brackets.
host_str(base_url) ==
    CASE base_url.host.kind = "none" -> NoText
      [] base_url.host.kind = "ipv6" ->
            SomeText(<<"[">> \o base_url.host.text \o <<"]">>)
      [] OTHER -> SomeText(base_url.host.text)

\* h.parse::<IpAddr>() (113): the text is an address written in full, with
\* nothing around it.
parse_IpAddr(text) ==
    IF Len(text) = 1 /\ text[1] \in Ipv4Literals THEN [ok |-> TRUE, v |-> 4, addr |-> text[1]]
    ELSE IF Len(text) = 1 /\ text[1] \in Ipv6Literals
         THEN [ok |-> TRUE, v |-> 6, addr |-> text[1]]
         ELSE [ok |-> FALSE, v |-> 0, addr |-> ""]

\* IpAddr::is_loopback: 127.0.0.0/8 and ::1.
is_loopback(ip) ==
    \/ ip.v = 4 /\ ip.addr \in {"127.0.0.1", "127.8.8.8"}
    \/ ip.v = 6 /\ ip.addr = "::1"

\* Client::is_loopback_host (109-118)
is_loopback_host(host) ==
    IF ~host.some THEN FALSE
    ELSE IF host.text = <<"localhost">> THEN TRUE
    ELSE parse_IpAddr(host.text).ok /\ is_loopback(parse_IpAddr(host.text))

\* Client::validate_base_url (92-107)
validate_base_url(base_url) ==
    IF base_url.query.some \/ base_url.fragment.some THEN "InvalidPath"
    ELSE IF ~host_str(base_url).some \/ host_str(base_url).text = <<>> THEN "InvalidPath"
    ELSE IF base_url.scheme = "https" THEN "Ok"
    ELSE IF base_url.scheme = "http" /\ is_loopback_host(host_str(base_url)) THEN "Ok"
    ELSE "InsecureBaseUrl"

\* Client::new_with_timeout: Url::parse(base_url)?, validate_base_url(..)?,
\* and the client.
new_with_timeout(input) ==
    IF ~input.parses THEN "Url" ELSE validate_base_url(input)

\* Base URLs a client is constructed with.  Url::parse gives an http or
\* https URL a host; a text it refuses has no parts.
BaseUrlInputs ==
    {[fn |-> "new", parses |-> FALSE, scheme |-> "", host |-> NoHost,
      query |-> NoText, fragment |-> NoText]}
    \cup {u \in {[fn |-> "new", parses |-> TRUE, scheme |-> sc, host |-> h,
                   query |-> q, fragment |-> f] :
                    sc \in {"https", "http", "ftp", "file", "mailto"},
                    h \in {NoHost, Domain("example.com"), Domain("localhost")}
                          \cup {Ipv4(a) : a \in Ipv4Literals}
                          \cup {Ipv6(a) : a \in Ipv6Literals},
                    q \in {NoText, SomeText(<<>>), SomeText(<<"a=1">>)},
                    f \in {NoText, SomeText(<<"top">>)}} :
            /\ (u.scheme \in {"https", "http", "ftp"} => u.host # NoHost)
            /\ (u.scheme = "mailto" => u.host = NoHost)}

(***************************************************************************)
(* Client::execute_text on a 2xx response whose body was read (399-414).   *)
(* A body is a sequence of characters; "0xFF" is a byte that is not UTF-8. *)
(***************************************************************************)
NoHeader == [present |-> FALSE, visible |-> FALSE, text |-> <<>>]
Header(text) == [present |-> TRUE, visible |-> TRUE, text |-> text]
\* A header value with bytes outside the visible ASCII range.
OpaqueHeader == [present |-> TRUE, visible |-> FALSE, text |-> <<>>]

\* .get(CONTENT_TYPE).and_then(|v| v.to_str().ok()).unwrap_or("")
\* .to_ascii_lowercase() (399-404)
content_type_of(header) ==
    IF header.present /\ header.visible
    THEN [i \in DOMAIN header.text |-> ToLower(header.text[i])]
    ELSE <<>>

\* content_type.contains("application/json") || content_type.contains("+json")
\* (407)
IsJsonContentType(content_type) ==
    \/ Contains(content_type, <<"a", "p", "p", "l", "i", "c", "a", "t", "i", "o", "n",
                                "/", "j", "s", "o", "n">>)
    \/ Contains(content_type, <<"+", "j", "s", "o", "n">>)

ParseErr == [ok |-> FALSE, text |-> <<>>]
ParseOk(text) == [ok |-> TRUE, text |-> text]

\* The characters of a JSON string after its opening quote: an escape is
\* decoded, a byte that is not UTF-8 or an escape JSON does not have is an
\* error, and after the closing quote only white space may follow.
RECURSIVE JsonStringChars(_, _)
JsonStringChars(t, acc) ==
    IF t = <<>> THEN ParseErr
    ELSE IF t[1] = "\""
         THEN (IF TrimStart(Tail(t), {" ", "\t", "\n", "\r"}) = <<>>
               THEN ParseOk(acc) ELSE ParseErr)
    ELSE IF t[1] = "\\"
         THEN (IF Len(t) < 2 THEN ParseErr
               ELSE IF t[2] = "n" THEN JsonStringChars(DropFirst(t, 2), Append(acc, "\n"))
               ELSE IF t[2] \in {"\"", "\\"}
                    THEN JsonStringChars(DropFirst(t, 2), Append(acc, t[2]))
               ELSE ParseErr)
    ELSE IF t[1] \in {"0xFF", "\t", "\n", "\r", "C0"} THEN ParseErr
    ELSE JsonStringChars(Tail(t), Append(acc, t[1]))

\* serde_json::from_slice::<String>(&body) (409): white space, then a string.
from_slice_String(body) ==
    LET s == TrimStart(body, {" ", "\t", "\n", "\r"}) IN
    IF s = <<>> \/ s[1] # "\"" THEN ParseErr ELSE JsonStringChars(Tail(s), <<>>)

\* String::from_utf8_lossy(&body) (413)
from_utf8_lossy(body) ==
    [i \in DOMAIN body |-> IF body[i] = "0xFF" THEN Replacement ELSE body[i]]

\* Mutant: the body is decoded whatever the content type says.
execute_text_body_any_content_type(decode_json_string, header, body) ==
    IF decode_json_string /\ from_slice_String(body).ok
    THEN from_slice_String(body).text
    ELSE from_utf8_lossy(body)

\* The text execute_text returns for a 2xx body (405-413).
execute_text_body(decode_json_string, header, body) ==
    IF /\ decode_json_string
       /\ IsJsonContentType(content_type_of(header))
       /\ from_slice_String(body).ok
    THEN from_slice_String(body).text
    ELSE from_utf8_lossy(body)

\* The flag each of the two text endpoints passes to execute_text:
\* get_blueprint_text_v3 (530) and get_blueprint_text_v2 (539).
decode_json_string_of(endpoint) == endpoint = "get_blueprint_text_v3"

ContentTypeHeaders ==
    {NoHeader, OpaqueHeader,
     Header(<<"t", "e", "x", "t", "/", "p", "l", "a", "i", "n">>),
     Header(<<"a", "p", "p", "l", "i", "c", "a", "t", "i", "o", "n", "/", "j", "s",
              "o", "n">>),
     Header(<<"A", "p", "p", "l", "i", "c", "a", "t", "i", "o", "n", "/", "J", "S",
              "O", "N", ";", " ", "c", "h", "a", "r", "s", "e", "t", "=", "u", "t",
              "f", "-", "8">>),
     Header(<<"a", "p", "p", "l", "i", "c", "a", "t", "i", "o", "n", "/", "l", "d",
              "+", "j", "s", "o", "n">>)}

RECURSIVE TextBodies(_)
TextBodies(n) ==
    IF n = 0 THEN {<<>>}
    ELSE TextBodies(n - 1)
         \cup {<<c>> \o t : c \in {"\"", "a", "\\", "n", " ", "0xFF"},
                            t \in {x \in TextBodies(n - 1) : Len(x) = n - 1}}

\* The 2xx answers to the two text endpoints, with bodies of at most n
\* characters.
TextInputs(n) ==
    {[fn |-> "execute_text", endpoint |-> e, header |-> h, body |-> t] :
        e \in {"get_blueprint_text_v3", "get_blueprint_text_v2"},
        h \in ContentTypeHeaders, t \in TextBodies(n)}

(***************************************************************************)
(* The Debug implementations of the auth models (model.rs) and of the      *)
(* stored session (client.rs 27-34).  A value is its type, its secret and  *)
(* its other fields; the output of debug_struct is the name of the struct  *)
(* and, in their order, its fields with their values as Debug writes them. *)
(***************************************************************************)
\* Debug of a &str or String, and of an Option<String>.
DebugStr(text) == <<"\"">> \o text \o <<"\"">>
DebugOption(o) == IF o.some THEN <<"Some(">> \o DebugStr(o.text) \o <<")">> ELSE <<"None">>

\* f.debug_struct(name).field(..).finish()
debug_struct(name, fields) == <<name, fields>>

\* Mutant: the session is written as #[derive(Debug)] writes it.
fmt_AuthState_derived(v) ==
    debug_struct("AuthState",
                 << <<"token", DebugStr(v.secret.text)>>,
                    <<"account_type", DebugStr(v.public.account_type)>> >>)

\* impl Debug for AuthState (client.rs 27-34)
fmt_AuthState(v) ==
    debug_struct("AuthState",
                 << <<"token", DebugStr(<<"<redacted>">>)>>,
                    <<"account_type", DebugStr(v.public.account_type)>> >>)

\* impl Debug for AuthWithPasswordBody (model.rs 18-27)
fmt_AuthWithPasswordBody(v) ==
    debug_struct("AuthWithPasswordBody",
                 << <<"account_type", DebugStr(v.public.account_type)>>,
                    <<"password", DebugStr(<<"<redacted>">>)>>,
                    <<"email", DebugOption(v.public.email)>>,
                    <<"username", DebugOption(v.public.username)>> >>)

\* impl Debug for AuthAccountBody (model.rs 36-43); its password is an
\* Option.
fmt_AuthAccountBody(v) ==
    debug_struct("AuthAccountBody",
                 << <<"account", DebugStr(v.public.account)>>,
                    <<"password", DebugStr(<<"<redacted>">>)>> >>)

\* impl Debug for AuthOutputV3Body (model.rs 84-96); organizations and
\* metadata are None in this model.
fmt_AuthOutputV3Body(v) ==
    debug_struct("AuthOutputV3Body",
                 << <<"token", DebugStr(<<"<redacted>">>)>>,
                    <<"account_type", DebugStr(v.public.account_type)>>,
                    <<"name", DebugStr(v.public.name)>>,
                    <<"email", DebugOption(v.public.email)>>,
                    <<"username", DebugOption(v.public.username)>>,
                    <<"organizations", <<"None">> >>,
                    <<"metadata", <<"None">> >> >>)

\* impl Debug for AuthBody (model.rs 104-111)
fmt_AuthBody(v) ==
    debug_struct("AuthBody",
                 << <<"token", DebugStr(<<"<redacted>">>)>>,
                    <<"name", DebugStr(v.public.name)>> >>)

\* format!("{:?}", v)
fmt(v) ==
    CASE v.type = "AuthState" -> fmt_AuthState(v)
      [] v.type = "AuthWithPasswordBody" -> fmt_AuthWithPasswordBody(v)
      [] v.type = "AuthAccountBody" -> fmt_AuthAccountBody(v)
      [] v.type = "AuthOutputV3Body" -> fmt_AuthOutputV3Body(v)
      [] OTHER -> fmt_AuthBody(v)

\* Values that are formatted.  A text is a sequence of pieces; a secret is
\* written as an Option, which is Some for every type but AuthAccountBody,
\* whose password is an Option<String>.
SecretTexts == {SomeText(<<"pw-123">>), SomeText(<<"tok-xyz">>)}
PublicTexts == {<<"manager">>, <<"tok-xyz">>}
OptionTexts == {NoText} \cup {SomeText(t) : t \in PublicTexts}

DebugValues ==
    {[fn |-> "fmt", type |-> "AuthState", secret |-> x,
      public |-> [account_type |-> a]] : x \in SecretTexts, a \in PublicTexts}
    \cup {[fn |-> "fmt", type |-> "AuthWithPasswordBody", secret |-> x,
           public |-> [account_type |-> a, email |-> e, username |-> u]] :
            x \in SecretTexts, a \in PublicTexts, e \in OptionTexts, u \in OptionTexts}
    \cup {[fn |-> "fmt", type |-> "AuthAccountBody", secret |-> x,
           public |-> [account |-> a]] :
            x \in {NoText} \cup SecretTexts, a \in PublicTexts}
    \cup {[fn |-> "fmt", type |-> "AuthOutputV3Body", secret |-> x,
           public |-> [account_type |-> a, name |-> n, email |-> e, username |-> u]] :
            x \in SecretTexts, a \in PublicTexts, n \in PublicTexts,
            e \in OptionTexts, u \in OptionTexts}
    \cup {[fn |-> "fmt", type |-> "AuthBody", secret |-> x, public |-> [name |-> n]] :
            x \in SecretTexts, n \in PublicTexts}

VARIABLES
    auth,           \* the Auth Store: Arc<RwLock<Option<AuthState>>>
    pc,             \* where each caller's call is suspended
    kind,           \* the logical call each caller runs
    retries,        \* the loop's retry counter
    authed,         \* lock.is_some() of the last snapshot
    req,            \* the request in flight: its target and auth headers
    newtok,         \* decoded auth body waiting for the store's write lock
    result,         \* what the logical call returned
    sends,          \* history: primary requests sent by the call
    refreshCalls,   \* history: refresh_token invocations of the call
    refreshSends,   \* history: refresh requests sent by the call
    firstAuthed401, \* history: the first send carried a token and got 401
    refreshOk,      \* history: the call's refresh_token returned Ok
    lastResp,       \* history: the last response the call received
    delta,          \* history: how the call changed the store
    started,        \* logical calls started so far
    logins,         \* history: logins that have stored a session so far
    lineage,        \* history: the login the stored token descends from, and
                    \* the login that stored the account type
    sentLineage,    \* history: the login the token of the refresh request
                    \* in flight descends from
    ubase,          \* the client's base_url
    uin,            \* the text handed to a path function
    uphase,         \* which path function has run
    uenc,           \* the encoded segment
    uout,           \* what Client::url returned
    readers,        \* callers holding a read guard of the store's RwLock
    writers,        \* callers holding its write guard
    lpc,            \* where each caller's access to the store stands
    lop,            \* the access under way: its operation and the data it writes
    snap,           \* the copy a reader has made so far
    ops,            \* accesses started so far
    fin,            \* the input handed to a pure function
    fphase,         \* which function has run
    fout            \* what it returned

evars == <<auth, pc, kind, retries, authed, req, newtok, result, sends,
           refreshCalls, refreshSends, firstAuthed401, refreshOk, lastResp,
           delta, started, logins, lineage, sentLineage>>
uvars == <<ubase, uin, uphase, uenc, uout>>
lvars == <<readers, writers, lpc, lop, snap, ops>>
fvars == <<fin, fphase, fout>>
vars == <<evars, uvars, lvars, fvars>>

NoRequest == [target |-> "none", hdr |-> None]
Request(target, hdr) == [target |-> target, hdr |-> hdr]

\* The logins of a behaviour are numbered in the order of their writes; a
\* token a refresh returns descends from the login of the token it presented.
NoLineage == [token |-> 0, account |-> 0]

\* The client after Client::new (85-89): an empty store, nothing under way.
ClientInit ==
    /\ auth = None
    /\ pc = [p \in Callers |-> "idle"]
    /\ kind = [p \in Callers |-> "none"]
    /\ retries = [p \in Callers |-> 0]
    /\ authed = [p \in Callers |-> FALSE]
    /\ req = [p \in Callers |-> NoRequest]
    /\ newtok = [p \in Callers |-> None]
    /\ result = [p \in Callers |-> Pending]
    /\ sends = [p \in Callers |-> 0]
    /\ refreshCalls = [p \in Callers |-> 0]
    /\ refreshSends = [p \in Callers |-> 0]
    /\ firstAuthed401 = [p \in Callers |-> FALSE]
    /\ refreshOk = [p \in Callers |-> FALSE]
    /\ lastResp = [p \in Callers |-> NoResponse]
    /\ delta = [p \in Callers |-> "none"]
    /\ started = 0
    /\ logins = 0
    /\ lineage = NoLineage
    /\ sentLineage = [p \in Callers |-> 0]

NoResult == [kind |-> "none", url |-> NoUrl]

\* No access to the store under way: RwLock::new(None) (88).
NoAccess == [op |-> "none", token |-> 0, account_type |-> ""]
LockInit ==
    /\ readers = {}
    /\ writers = {}
    /\ lpc = [p \in Callers |-> "idle"]
    /\ lop = [p \in Callers |-> NoAccess]
    /\ snap = [p \in Callers |-> None]
    /\ ops = 0

\* No function applied.
NoInput == [fn |-> "none"]
FnIdle ==
    /\ fin = NoInput
    /\ fphase = "idle"
    /\ fout = NoInput

Init ==
    /\ ClientInit
    /\ LockInit
    /\ FnIdle
    /\ ubase = BaseUrl(<<"/">>)
    /\ uin = <<>>
    /\ uphase = "idle"
    /\ uenc = <<>>
    /\ uout = NoResult

\* The history of a write of the store by p: what it changed, if anything.
Wrote(p, what) ==
    delta' = [delta EXCEPT ![p] = IF auth' # auth THEN what ELSE @]

(***************************************************************************)
(* A caller invokes a logical call.  The executor loops start with         *)
(* retries = 1 (client.rs 332, 377, 897).                                  *)
(***************************************************************************)
Call(p, k) ==
    /\ pc[p] = "idle"
    /\ started < MaxCalls
    /\ started' = started + 1
    /\ kind' = [kind EXCEPT ![p] = k]
    /\ pc' = [pc EXCEPT ![p] = IF k = "refresh_token" THEN "refresh_read" ELSE "attach"]
    /\ retries' = [retries EXCEPT ![p] = IF k = "refresh_token" THEN 0 ELSE 1]
    /\ refreshCalls' = [refreshCalls EXCEPT ![p] = IF k = "refresh_token" THEN 1 ELSE 0]
    /\ UNCHANGED <<auth, authed, req, newtok, result, sends, refreshSends,
                   firstAuthed401, refreshOk, lastResp, delta>>
    /\ UNCHANGED <<logins, lineage, sentLineage>>
    /\ UNCHANGED <<uvars, lvars, fvars>>

\* Mutant: a call that fails at the transport level is sent once more.
Finish_resending(p, r) ==
    IF r = ErrRequest /\ sends[p] < 2
    THEN pc' = [pc EXCEPT ![p] = "attach"] /\ UNCHANGED result
    ELSE /\ pc' = [pc EXCEPT ![p] = "done"]
         /\ result' = [result EXCEPT ![p] = r]

\* The call of caller p ends with result r: a `return`, or the `?` of an
\* await that failed (352, 357, 361).
Finish(p, r) ==
    /\ pc' = [pc EXCEPT ![p] = "done"]
    /\ result' = [result EXCEPT ![p] = r]

(***************************************************************************)
(* The top of the executor loop up to the send (execute_json_internal      *)
(* 334-352, execute_text 379-391, upload_plant_file_v3 899-916): the store *)
(* is read under the read lock when the call includes auth, the snapshot's *)
(* two headers are attached, and the request is sent.                      *)
(***************************************************************************)
Snapshot(p) == IF include_auth(kind[p]) THEN auth ELSE None

execute_send(p) ==
    /\ pc[p] = "attach"
    /\ authed' = [authed EXCEPT ![p] = Snapshot(p).some]
    /\ req' = [req EXCEPT ![p] =
                 Request(IF kind[p] \in LoginKinds THEN "login" ELSE "primary",
                         Snapshot(p))]
    /\ sends' = [sends EXCEPT ![p] = @ + 1]
    /\ pc' = [pc EXCEPT ![p] = "sent"]
    /\ UNCHANGED <<auth, kind, retries, newtok, result, refreshCalls, refreshSends,
                   firstAuthed401, refreshOk, lastResp, delta, started>>
    /\ UNCHANGED <<logins, lineage, sentLineage>>
    /\ UNCHANGED <<uvars, lvars, fvars>>

\* Mutant: the retry counter is not consulted.
ShouldRefresh_unbounded(p, status) ==
    status = 401 /\ authed[p] /\ allow_refresh_on_401(kind[p])

\* Mutant: a 401 starts no refresh while another caller's refresh is under way.
ShouldRefresh_coalesced(p, status) ==
    /\ status = 401 /\ retries[p] > 0 /\ authed[p] /\ allow_refresh_on_401(kind[p])
    /\ \A q \in Callers \ {p} :
          pc[q] \notin {"refresh_read", "refresh_sent", "refresh_write"}

\* Mutant: a 401 starts the refresh whether or not the request carried a
\* token.
ShouldRefresh_unauthed(p, status) ==
    status = 401 /\ retries[p] > 0 /\ allow_refresh_on_401(kind[p])

\* Mutant: a 403 starts the refresh as a 401 does.
ShouldRefresh_forbidden(p, status) ==
    /\ status \in {401, 403}
    /\ retries[p] > 0 /\ authed[p] /\ allow_refresh_on_401(kind[p])

\* The loop's test for the one refresh-and-retry (client.rs 355, 393, 919).
ShouldRefresh(p, status) ==
    status = 401 /\ retries[p] > 0 /\ authed[p] /\ allow_refresh_on_401(kind[p])

\* Mutant: only 401 clears the store.
ShouldClear_only401(err) ==
    \/ err.kind \in {"Api", "ApiProblem"} /\ err.status = 401
    \/ err.kind = "Unauthorized"

\* Mutant: every login failure clears the store.
ShouldClear_always(err) == TRUE

\* Client::clear_auth_on_login_failure, the match on the error (236-242).
ShouldClear(err) ==
    \/ err.kind \in {"Api", "ApiProblem"} /\ err.status \in {401, 403}
    \/ err.kind = "Unauthorized"

\* The account type a login stores: the response's for login (176), fixed
\* for the two v2 logins (203, 230).
LoginAccountType(k, resp) ==
    CASE k = "login_v2_manager" -> "manager"
      [] k = "login_v2_viewer" -> "viewer"
      [] OTHER -> resp.account_type

(***************************************************************************)
(* The response to the primary request (352-367; login 159-172).           *)
(***************************************************************************)
execute_recv(p, resp) ==
    /\ pc[p] = "sent"
    /\ req[p].target \in {"primary", "login"}
    /\ req' = [req EXCEPT ![p] = NoRequest]
    /\ lastResp' = [lastResp EXCEPT ![p] =
          IF resp.io # "send_error" /\ ShouldRefresh(p, resp.status)
          THEN StatusOnly(resp) ELSE resp]
    /\ firstAuthed401' = [firstAuthed401 EXCEPT ![p] =
          IF sends[p] = 1 THEN req[p].hdr.some /\ resp.status = 401 ELSE @]
    /\ IF resp.io # "send_error" /\ ShouldRefresh(p, resp.status)
       THEN /\ retries' = [retries EXCEPT ![p] = @ - 1]
            /\ refreshCalls' = [refreshCalls EXCEPT ![p] = @ + 1]
            /\ pc' = [pc EXCEPT ![p] = "refresh_read"]
            /\ UNCHANGED <<result, newtok>>
       ELSE LET r == IF resp.io = "send_error" THEN ErrRequest
                     ELSE ReadAndClassify(kind[p], resp) IN
            /\ UNCHANGED <<retries, refreshCalls>>
            /\ IF kind[p] \in LoginKinds
               THEN IF r = Ok
                    THEN /\ newtok' = [newtok EXCEPT ![p] =
                              AuthState(resp.token, LoginAccountType(kind[p], resp))]
                         /\ pc' = [pc EXCEPT ![p] = "login_store"]
                         /\ UNCHANGED result
                    ELSE /\ result' = [result EXCEPT ![p] = r]
                         /\ pc' = [pc EXCEPT ![p] =
                               IF ShouldClear(r) THEN "login_clear" ELSE "done"]
                         /\ UNCHANGED newtok
               ELSE /\ Finish(p, r)
                    /\ UNCHANGED newtok
    /\ UNCHANGED <<auth, kind, authed, sends, refreshSends, refreshOk, delta, started>>
    /\ UNCHANGED <<logins, lineage, sentLineage>>
    /\ UNCHANGED <<uvars, lvars, fvars>>

(***************************************************************************)
(* Client::login and the two v2 logins after a decoded response (173-178): *)
(* the write lock is taken, the slot replaced, and Ok returned with the    *)
(* lock still held.                                                        *)
(***************************************************************************)
login_store(p) ==
    /\ pc[p] = "login_store"
    /\ auth' = newtok[p]
    /\ Wrote(p, "replaced")
    /\ Finish(p, Ok)
    /\ UNCHANGED <<kind, retries, authed, req, newtok, sends, refreshCalls,
                   refreshSends, firstAuthed401, refreshOk, lastResp, started>>
    /\ logins' = logins + 1
    /\ lineage' = [token |-> logins + 1, account |-> logins + 1]
    /\ UNCHANGED sentLineage
    /\ UNCHANGED <<uvars, lvars, fvars>>

(***************************************************************************)
(* Client::clear_auth_on_login_failure, the write (243-246), and the       *)
(* login's return of the error (170).                                      *)
(***************************************************************************)
clear_auth_on_login_failure(p) ==
    /\ pc[p] = "login_clear"
    /\ auth' = None
    /\ Wrote(p, "cleared")
    /\ pc' = [pc EXCEPT ![p] = "done"]
    /\ UNCHANGED <<kind, retries, authed, req, newtok, result, sends, refreshCalls,
                   refreshSends, firstAuthed401, refreshOk, lastResp, started>>
    /\ lineage' = NoLineage
    /\ UNCHANGED <<logins, sentLineage>>
    /\ UNCHANGED <<uvars, lvars, fvars>>

\* Mutant: the refresh request is sent whatever the store holds.
refresh_token_read_unchecked(p) ==
    /\ pc[p] = "refresh_read"
    /\ req' = [req EXCEPT ![p] = Request("refresh", auth)]
    /\ refreshSends' = [refreshSends EXCEPT ![p] = @ + 1]
    /\ pc' = [pc EXCEPT ![p] = "refresh_sent"]
    /\ UNCHANGED <<auth, kind, retries, authed, newtok, result, sends, refreshCalls,
                   firstAuthed401, refreshOk, lastResp, delta, started>>
    /\ sentLineage' = [sentLineage EXCEPT ![p] = lineage.token]
    /\ UNCHANGED <<logins, lineage>>
    /\ UNCHANGED <<uvars, lvars, fvars>>

(***************************************************************************)
(* Client::refresh_token, up to the send (250-266).                        *)
(***************************************************************************)
refresh_token_read(p) ==
    /\ pc[p] = "refresh_read"
    /\ IF auth.some
       THEN /\ req' = [req EXCEPT ![p] = Request("refresh", auth)]
            /\ refreshSends' = [refreshSends EXCEPT ![p] = @ + 1]
            /\ pc' = [pc EXCEPT ![p] = "refresh_sent"]
            /\ UNCHANGED result
       ELSE /\ Finish(p, ErrUnauthorized)
            /\ UNCHANGED <<req, refreshSends>>
    /\ UNCHANGED <<auth, kind, retries, authed, newtok, sends, refreshCalls,
                   firstAuthed401, refreshOk, lastResp, delta, started>>
    /\ sentLineage' = [sentLineage EXCEPT ![p] = lineage.token]
    /\ UNCHANGED <<logins, lineage>>
    /\ UNCHANGED <<uvars, lvars, fvars>>

\* Mutant: every 2xx answer of the refresh endpoint counts as a success.
RefreshClassify_lenient(resp) ==
    CASE resp.io = "send_error" -> ErrRequest
      [] IsSuccess(resp.status) -> Ok
      [] resp.status \in {401, 403} -> ErrUnauthorized
      [] OTHER ->
            (CASE resp.io = "body_error" -> ErrRequest
               [] resp.io = "too_large" -> ErrResponseTooLarge
               [] OTHER -> api_error(resp.status, resp))

\* Mutant: every refusal of the refresh endpoint becomes Unauthorized.
RefreshClassify_collapsed(resp) ==
    CASE resp.io = "send_error" -> ErrRequest
      [] IsSuccess(resp.status) ->
            (CASE resp.io = "body_error" -> ErrRequest
               [] resp.io = "too_large" -> ErrResponseTooLarge
               [] OTHER -> IF resp.decodes THEN Ok ELSE ErrSerialization)
      [] OTHER -> ErrUnauthorized

\* What refresh_token makes of the refresh response (266-283), the store's
\* write aside.
RefreshClassify(resp) ==
    CASE resp.io = "send_error" -> ErrRequest
      [] IsSuccess(resp.status) ->
            (CASE resp.io = "body_error" -> ErrRequest
               [] resp.io = "too_large" -> ErrResponseTooLarge
               [] OTHER -> IF resp.decodes THEN Ok ELSE ErrSerialization)
      [] resp.status \in {401, 403} -> ErrUnauthorized
      [] OTHER ->
            (CASE resp.io = "body_error" -> ErrRequest
               [] resp.io = "too_large" -> ErrResponseTooLarge
               [] OTHER -> api_error(resp.status, resp))

\* The refresh response; an error is returned through the `?` of the loop
\* that called refresh_token (357, 395, 921).
refresh_token_recv(p, resp) ==
    /\ pc[p] = "refresh_sent"
    /\ req' = [req EXCEPT ![p] = NoRequest]
    /\ lastResp' = [lastResp EXCEPT ![p] = resp]
    /\ IF RefreshClassify(resp) = Ok
       THEN /\ newtok' = [newtok EXCEPT ![p] = AuthState(resp.token, "")]
            /\ pc' = [pc EXCEPT ![p] = "refresh_write"]
            /\ UNCHANGED result
       ELSE /\ Finish(p, RefreshClassify(resp))
            /\ UNCHANGED newtok
    /\ UNCHANGED <<auth, kind, retries, authed, sends, refreshCalls, refreshSends,
                   firstAuthed401, refreshOk, delta, started>>
    /\ UNCHANGED <<logins, lineage, sentLineage>>
    /\ UNCHANGED <<uvars, lvars, fvars>>

\* Mutant: the refresh's write leaves the token as it is.
RefreshedStore_unwritten(store, new) == store

\* Mutant: the refresh's write replaces the whole slot.
RefreshedStore_whole(store, new) == new

\* The store after the refresh's write (271-274): only the token of a
\* present session is replaced.
RefreshedStore(store, new) ==
    IF store.some THEN [store EXCEPT !.token = new.token] ELSE store

(***************************************************************************)
(* Client::refresh_token, the write (271-275), and the `continue` of the   *)
(* loop that called it (358, 396, 922).                                    *)
(***************************************************************************)
refresh_token_write(p) ==
    /\ pc[p] = "refresh_write"
    /\ auth' = RefreshedStore(auth, newtok[p])
    /\ Wrote(p, "token")
    /\ refreshOk' = [refreshOk EXCEPT ![p] = TRUE]
    /\ IF kind[p] = "refresh_token"
       THEN Finish(p, Ok)
       ELSE /\ pc' = [pc EXCEPT ![p] = "attach"]
            /\ UNCHANGED result
    /\ UNCHANGED <<kind, retries, authed, req, newtok, sends, refreshCalls,
                   refreshSends, firstAuthed401, lastResp, started>>
    /\ lineage' = IF auth.some THEN [lineage EXCEPT !.token = sentLineage[p]]
                ELSE lineage
    /\ UNCHANGED <<logins, sentLineage>>
    /\ UNCHANGED <<uvars, lvars, fvars>>

\* Mutant: abandoning a call clears the store.
Cancel_clearing(p) ==
    /\ pc[p] \in {"attach", "sent", "refresh_read", "refresh_sent", "refresh_write",
                  "login_store", "login_clear"}
    /\ pc' = [pc EXCEPT ![p] = "cancelled"]
    /\ req' = [req EXCEPT ![p] = NoRequest]
    /\ result' = [result EXCEPT ![p] = Pending]
    /\ auth' = None
    /\ Wrote(p, "cleared")
    /\ UNCHANGED <<kind, retries, authed, newtok, sends, refreshCalls,
                   refreshSends, firstAuthed401, refreshOk, lastResp, started>>
    /\ lineage' = NoLineage
    /\ UNCHANGED <<logins, sentLineage>>
    /\ UNCHANGED <<uvars, lvars, fvars>>

(***************************************************************************)
(* The caller abandons the call: the future of login (142), refresh_token  *)
(* (249) or of an executor loop (324, 371, 884) is dropped at one of its   *)
(* .await points (the store's read() and write(), send(), chunk(),         *)
(* refresh_token()).  Dropping runs no code of the client: the request in  *)
(* flight is dropped with the future, a lock guard it held is released,    *)
(* and nothing is returned.                                                *)
(***************************************************************************)
Cancel(p) ==
    /\ pc[p] \in {"attach", "sent", "refresh_read", "refresh_sent", "refresh_write",
                  "login_store", "login_clear"}
    /\ pc' = [pc EXCEPT ![p] = "cancelled"]
    /\ req' = [req EXCEPT ![p] = NoRequest]
    /\ result' = [result EXCEPT ![p] = Pending]
    /\ UNCHANGED <<auth, kind, retries, authed, newtok, sends, refreshCalls,
                   refreshSends, firstAuthed401, refreshOk, lastResp, delta, started>>
    /\ UNCHANGED <<logins, lineage, sentLineage>>
    /\ UNCHANGED <<uvars, lvars, fvars>>

\* The caller takes the result, or has abandoned the call; its handle is free
\* for the next call.
Return(p) ==
    /\ pc[p] \in {"done", "cancelled"}
    /\ pc' = [pc EXCEPT ![p] = "idle"]
    /\ kind' = [kind EXCEPT ![p] = "none"]
    /\ retries' = [retries EXCEPT ![p] = 0]
    /\ authed' = [authed EXCEPT ![p] = FALSE]
    /\ newtok' = [newtok EXCEPT ![p] = None]
    /\ result' = [result EXCEPT ![p] = Pending]
    /\ sends' = [sends EXCEPT ![p] = 0]
    /\ refreshCalls' = [refreshCalls EXCEPT ![p] = 0]
    /\ refreshSends' = [refreshSends EXCEPT ![p] = 0]
    /\ firstAuthed401' = [firstAuthed401 EXCEPT ![p] = FALSE]
    /\ refreshOk' = [refreshOk EXCEPT ![p] = FALSE]
    /\ lastResp' = [lastResp EXCEPT ![p] = NoResponse]
    /\ delta' = [delta EXCEPT ![p] = "none"]
    /\ UNCHANGED <<auth, req, started>>
    /\ sentLineage' = [sentLineage EXCEPT ![p] = 0]
    /\ UNCHANGED <<logins, lineage>>
    /\ UNCHANGED <<uvars, lvars, fvars>>

Next ==
    \/ \E p \in Callers, k \in Kinds : Call(p, k)
    \/ \E p \in Callers : execute_send(p)
    \/ \E p \in Callers :
         \E resp \in (IF kind[p] \in LoginKinds THEN LoginResponses ELSE PlainResponses) :
            execute_recv(p, resp)
    \/ \E p \in Callers : login_store(p)
    \/ \E p \in Callers : clear_auth_on_login_failure(p)
    \/ \E p \in Callers : refresh_token_read(p)
    \/ \E p \in Callers, resp \in RefreshResponses : refresh_token_recv(p, resp)
    \/ \E p \in Callers : refresh_token_write(p)
    \/ \E p \in Callers : Cancel(p)
    \/ \E p \in Callers : Return(p)

Spec == Init /\ [][Next]_vars

(***************************************************************************)
(* The client when every network call returns or times out (the HTTP       *)
(* client is built with a timeout, 80-83) and every task that is ready is  *)
(* polled again (the store's lock is a fair tokio RwLock): a step of a     *)
(* call that can be taken is taken in the end.  Starting a call,           *)
(* abandoning it and taking its result stay the caller's choice.           *)
(***************************************************************************)
Progress(p) ==
    \/ execute_send(p)
    \/ \E resp \in LoginResponses \cup PlainResponses : execute_recv(p, resp)
    \/ login_store(p)
    \/ clear_auth_on_login_failure(p)
    \/ refresh_token_read(p)
    \/ \E resp \in RefreshResponses : refresh_token_recv(p, resp)
    \/ refresh_token_write(p)

SpecLive == Init /\ [][Next]_vars /\ \A p \in Callers : WF_vars(Progress(p))

(***************************************************************************)
(* The same client some time after construction, when a first login (142)  *)
(* has stored its session and returned: the state Spec reaches by Call,    *)
(* execute_send, execute_recv, login_store and Return of one login.  From  *)
(* here MaxCalls further calls run.                                        *)
(***************************************************************************)
InitSession ==
    /\ auth = AuthState(1, "manager")
    /\ logins = 1
    /\ lineage = [token |-> 1, account |-> 1]
    /\ pc = [p \in Callers |-> "idle"]
    /\ kind = [p \in Callers |-> "none"]
    /\ retries = [p \in Callers |-> 0]
    /\ authed = [p \in Callers |-> FALSE]
    /\ req = [p \in Callers |-> NoRequest]
    /\ newtok = [p \in Callers |-> None]
    /\ result = [p \in Callers |-> Pending]
    /\ sends = [p \in Callers |-> 0]
    /\ refreshCalls = [p \in Callers |-> 0]
    /\ refreshSends = [p \in Callers |-> 0]
    /\ firstAuthed401 = [p \in Callers |-> FALSE]
    /\ refreshOk = [p \in Callers |-> FALSE]
    /\ lastResp = [p \in Callers |-> NoResponse]
    /\ delta = [p \in Callers |-> "none"]
    /\ sentLineage = [p \in Callers |-> 0]
    /\ started = 0
    /\ ubase = BaseUrl(<<"/">>)
    /\ uin = <<>>
    /\ uphase = "idle"
    /\ uenc = <<>>
    /\ uout = NoResult
    /\ LockInit
    /\ FnIdle

SpecSession == InitSession /\ [][Next]_vars

(***************************************************************************)
(* The Auth Store at the grain of its lock: auth is an                     *)
(* Arc<RwLock<Option<AuthState>>> (56), and every access of the client     *)
(* goes through a guard of that lock:                                      *)
(*   snapshot       execute_json_internal 336-346 (execute_text 381-385,   *)
(*                  upload_plant_file_v3 901-905): read(), clone the slot, *)
(*                  attach the two headers of the copy;                    *)
(*   refresh_read   refresh_token 250-257: read(), clone token and         *)
(*                  account_type, send them to the refresh endpoint;       *)
(*   login          login 173-177 (and 201-205, 228-232): write(), replace *)
(*                  the slot;                                              *)
(*   clear          clear_auth_on_login_failure 244-245: write(), empty    *)
(*                  the slot;                                              *)
(*   refresh_write  refresh_token 271-274: write(), set the token of a     *)
(*                  present session.                                       *)
(* A guard is acquired at an .await and dropped at the end of its block.   *)
(* Under a guard the slot is copied and written one field at a time, which *)
(* is what the guards make indivisible.                                    *)
(***************************************************************************)
ReadAccesses == {"snapshot", "refresh_read"}
WriteAccesses == {"login", "clear", "refresh_write"}

\* The calls of the client other than the store and the requests built from
\* it, which the lock model leaves alone.
cvars == <<pc, kind, retries, authed, newtok, result, sends, refreshCalls,
           refreshSends, firstAuthed401, refreshOk, lastResp, delta, started,
           logins, lineage, sentLineage>>

\* A caller reaches one of the accesses, with the data it is to write.
access(p, op, t, a) ==
    /\ lpc[p] = "idle"
    /\ ops < MaxOps
    /\ ops' = ops + 1
    /\ lop' = [lop EXCEPT ![p] =
                 [op |-> op,
                  token |-> IF op \in {"login", "refresh_write"} THEN t ELSE 0,
                  account_type |-> IF op = "login" THEN a ELSE ""]]
    /\ lpc' = [lpc EXCEPT ![p] = IF op \in ReadAccesses THEN "want_read" ELSE "want_write"]
    /\ snap' = [snap EXCEPT ![p] = None]
    /\ req' = [req EXCEPT ![p] = NoRequest]
    /\ UNCHANGED <<auth, readers, writers, cvars, uvars, fvars>>

\* Mutant: a read guard is handed out while a write guard is held.
read_unguarded(p) ==
    /\ lpc[p] = "want_read"
    /\ readers' = readers \cup {p}
    /\ lpc' = [lpc EXCEPT ![p] = "reading"]
    /\ UNCHANGED <<auth, req, writers, lop, snap, ops, cvars, uvars, fvars>>

\* self.auth.read().await: granted while no write guard is held.
read(p) ==
    /\ lpc[p] = "want_read"
    /\ writers = {}
    /\ readers' = readers \cup {p}
    /\ lpc' = [lpc EXCEPT ![p] = "reading"]
    /\ UNCHANGED <<auth, req, writers, lop, snap, ops, cvars, uvars, fvars>>

\* (*lock).clone(), first part: the discriminant and the token.
clone_token(p) ==
    /\ lpc[p] = "reading"
    /\ snap' = [snap EXCEPT ![p] =
                  IF auth.some THEN [some |-> TRUE, token |-> auth.token,
                                     account_type |-> ""]
                  ELSE None]
    /\ lpc' = [lpc EXCEPT ![p] = IF auth.some THEN "cloning" ELSE "cloned"]
    /\ UNCHANGED <<auth, req, readers, writers, lop, ops, cvars, uvars, fvars>>

\* (*lock).clone(), second part: the account type.
clone_account_type(p) ==
    /\ lpc[p] = "cloning"
    /\ snap' = [snap EXCEPT ![p].account_type = auth.account_type]
    /\ lpc' = [lpc EXCEPT ![p] = "cloned"]
    /\ UNCHANGED <<auth, req, readers, writers, lop, ops, cvars, uvars, fvars>>

\* Mutant: the read guard is kept while the request is built and sent.
read_release_held(p) ==
    /\ lpc[p] = "cloned"
    /\ lpc' = [lpc EXCEPT ![p] = "attach"]
    /\ UNCHANGED <<auth, req, readers, writers, lop, snap, ops, cvars, uvars, fvars>>

\* The read guard goes out of scope (340, 257).
read_release(p) ==
    /\ lpc[p] = "cloned"
    /\ readers' = readers \ {p}
    /\ lpc' = [lpc EXCEPT ![p] = "attach"]
    /\ UNCHANGED <<auth, req, writers, lop, snap, ops, cvars, uvars, fvars>>

\* The headers are attached from the copy and the request is sent (342-352,
\* 259-266); refresh_token with an empty copy returns without a request (255).
send(p) ==
    /\ lpc[p] = "attach"
    /\ req' = [req EXCEPT ![p] =
                 IF lop[p].op = "snapshot" THEN Request("primary", snap[p])
                 ELSE IF snap[p].some THEN Request("refresh", snap[p])
                 ELSE NoRequest]
    /\ lpc' = [lpc EXCEPT ![p] = "idle"]
    /\ UNCHANGED <<auth, readers, writers, lop, snap, ops, cvars, uvars, fvars>>

\* self.auth.write().await: granted while no guard at all is held.
write(p) ==
    /\ lpc[p] = "want_write"
    /\ writers = {}
    /\ readers = {}
    /\ writers' = writers \cup {p}
    /\ lpc' = [lpc EXCEPT ![p] = "writing"]
    /\ UNCHANGED <<auth, req, readers, lop, snap, ops, cvars, uvars, fvars>>

\* The token is written: the first field of the new slot of a login (174),
\* the only field a refresh sets, and only in a present session (272-274).
write_token(p) ==
    /\ lpc[p] = "writing"
    /\ lop[p].op \in {"login", "refresh_write"}
    /\ auth' = IF lop[p].op = "login" \/ auth.some
               THEN [auth EXCEPT !.token = lop[p].token]
               ELSE auth
    /\ lpc' = [lpc EXCEPT ![p] = IF lop[p].op = "login" THEN "half" ELSE "written"]
    /\ UNCHANGED <<req, readers, writers, lop, snap, ops, cvars, uvars, fvars>>

\* The account type of the new slot of a login is written, and the slot is
\* present (175-177).
write_account_type(p) ==
    /\ lpc[p] = "half"
    /\ auth' = AuthState(auth.token, lop[p].account_type)
    /\ lpc' = [lpc EXCEPT ![p] = "written"]
    /\ UNCHANGED <<req, readers, writers, lop, snap, ops, cvars, uvars, fvars>>

\* *lock = None (245).
write_none(p) ==
    /\ lpc[p] = "writing"
    /\ lop[p].op = "clear"
    /\ auth' = None
    /\ lpc' = [lpc EXCEPT ![p] = "written"]
    /\ UNCHANGED <<req, readers, writers, lop, snap, ops, cvars, uvars, fvars>>

\* The write guard goes out of scope (179, 246, 275).
write_release(p) ==
    /\ lpc[p] = "written"
    /\ writers' = writers \ {p}
    /\ lpc' = [lpc EXCEPT ![p] = "idle"]
    /\ UNCHANGED <<auth, req, readers, lop, snap, ops, cvars, uvars, fvars>>

NextLock ==
    \/ \E p \in Callers, op \in ReadAccesses \cup WriteAccesses,
          t \in Tokens, a \in AccountTypes : access(p, op, t, a)
    \/ \E p \in Callers : read(p)
    \/ \E p \in Callers : clone_token(p)
    \/ \E p \in Callers : clone_account_type(p)
    \/ \E p \in Callers : read_release(p)
    \/ \E p \in Callers : send(p)
    \/ \E p \in Callers : write(p)
    \/ \E p \in Callers : write_token(p)
    \/ \E p \in Callers : write_account_type(p)
    \/ \E p \in Callers : write_none(p)
    \/ \E p \in Callers : write_release(p)

SpecLock == Init /\ [][NextLock]_vars

(***************************************************************************)
(* The path functions applied to bounded inputs: a client constructed with *)
(* one of the base URLs is handed a text, as a relative path for           *)
(* Client::url or as a plant id for get_plant_v3.                          *)
(***************************************************************************)
InitUrl ==
    /\ ClientInit
    /\ LockInit
    /\ FnIdle
    /\ ubase \in {BaseUrl(b) : b \in BasePaths}
    /\ uin \in Texts(MaxAtoms)
    /\ uphase = "input"
    /\ uenc = <<>>
    /\ uout = NoResult

\* self.url(path)
url_call ==
    /\ uphase = "input"
    /\ uout' = url(ubase, uin)
    /\ uphase' = "url"
    /\ UNCHANGED <<ubase, uin, uenc, evars, lvars, fvars>>

\* get_plant_v3 up to its self.url(&path)? (503-504)
get_plant_v3 ==
    /\ uphase = "input"
    /\ uenc' = encode_path_segment(uin)
    /\ uout' = url(ubase, PlantPath(uin))
    /\ uphase' = "plant"
    /\ UNCHANGED <<ubase, uin, evars, lvars, fvars>>

NextUrl == url_call \/ get_plant_v3

SpecUrl == InitUrl /\ [][NextUrl]_vars

(***************************************************************************)
(* One logical call run alone, as a function of the store it starts with   *)
(* and of the answers of the network: t is the run so far (the store, the  *)
(* auth headers of every primary request sent, the refresh_token calls,    *)
(* the auth headers of every refresh request sent, the store after every   *)
(* write, the result) and answers the responses still to come, those to    *)
(* the primary requests and those to the refresh requests.                 *)
(***************************************************************************)
Run(store) ==
    [store |-> store, sends |-> <<>>, refreshes |-> 0, refreshSends |-> <<>>,
     writes |-> <<>>, result |-> Pending]
Answers(primary, refresh) == [primary |-> primary, refresh |-> refresh]
Rest(answers, refreshed) ==
    Answers(Tail(answers.primary),
            IF refreshed THEN Tail(answers.refresh) ELSE answers.refresh)

\* Client::refresh_token (249-284)
refresh_token_run(t, answers) ==
    LET called == [t EXCEPT !.refreshes = @ + 1] IN
    IF ~t.store.some THEN [called EXCEPT !.result = ErrUnauthorized]
    ELSE LET res == Head(answers.refresh)
             sent == [called EXCEPT !.refreshSends = Append(@, t.store)]
         IN  IF RefreshClassify(res) # Ok
             THEN [sent EXCEPT !.result = RefreshClassify(res)]
             ELSE [sent EXCEPT
                     !.store = RefreshedStore(@, AuthState(res.token, "")),
                     !.writes = Append(@, RefreshedStore(t.store,
                                                         AuthState(res.token, ""))),
                     !.result = Ok]

\* The loop of Client::execute_json_internal (332-368)
RECURSIVE execute_json_internal_run(_, _, _, _, _)
execute_json_internal_run(allow_refresh, with_auth, retries_left, answers, t) ==
    IF answers.primary = <<>> THEN t
    ELSE LET auth_snapshot == IF with_auth THEN t.store ELSE None
             res == Head(answers.primary)
             sent == [t EXCEPT !.sends = Append(@, auth_snapshot)]
         IN  IF res.io = "send_error" THEN [sent EXCEPT !.result = ErrRequest]
             ELSE IF /\ res.status = 401 /\ retries_left > 0
                     /\ auth_snapshot.some /\ allow_refresh
                  THEN LET r == refresh_token_run(sent, answers) IN
                       IF r.result # Ok THEN r
                       ELSE execute_json_internal_run(
                                allow_refresh, with_auth, retries_left - 1,
                                Rest(answers, t.store.some),
                                [r EXCEPT !.result = Pending])
                  ELSE [sent EXCEPT !.result = ReadAndClassify("execute_json", res)]

\* Mutant: the raw-text loop refreshes on a 401 whether or not the request
\* carried a token.
RECURSIVE execute_text_run_unauthed(_, _, _)
execute_text_run_unauthed(retries_left, answers, t) ==
    IF answers.primary = <<>> THEN t
    ELSE LET auth_snapshot == t.store
             res == Head(answers.primary)
             sent == [t EXCEPT !.sends = Append(@, auth_snapshot)]
         IN  IF res.io = "send_error" THEN [sent EXCEPT !.result = ErrRequest]
             ELSE IF res.status = 401 /\ retries_left > 0
                  THEN LET r == refresh_token_run(sent, answers) IN
                       IF r.result # Ok THEN r
                       ELSE execute_text_run_unauthed(
                                retries_left - 1, Rest(answers, t.store.some),
                                [r EXCEPT !.result = Pending])
                  ELSE [sent EXCEPT !.result = ReadAndClassify("execute_text", res)]

\* The loop of Client::execute_text (377-417)
RECURSIVE execute_text_run(_, _, _)
execute_text_run(retries_left, answers, t) ==
    IF answers.primary = <<>> THEN t
    ELSE LET auth_snapshot == t.store
             res == Head(answers.primary)
             sent == [t EXCEPT !.sends = Append(@, auth_snapshot)]
         IN  IF res.io = "send_error" THEN [sent EXCEPT !.result = ErrRequest]
             ELSE IF res.status = 401 /\ retries_left > 0 /\ auth_snapshot.some
                  THEN LET r == refresh_token_run(sent, answers) IN
                       IF r.result # Ok THEN r
                       ELSE execute_text_run(
                                retries_left - 1, Rest(answers, t.store.some),
                                [r EXCEPT !.result = Pending])
                  ELSE [sent EXCEPT !.result = ReadAndClassify("execute_text", res)]

\* The loop of Client::upload_plant_file_v3 (897-932)
RECURSIVE upload_plant_file_v3_run(_, _, _)
upload_plant_file_v3_run(retries_left, answers, t) ==
    IF answers.primary = <<>> THEN t
    ELSE LET auth_snapshot == t.store
             res == Head(answers.primary)
             sent == [t EXCEPT !.sends = Append(@, auth_snapshot)]
         IN  IF res.io = "send_error" THEN [sent EXCEPT !.result = ErrRequest]
             ELSE IF res.status = 401 /\ retries_left > 0 /\ auth_snapshot.some
                  THEN LET r == refresh_token_run(sent, answers) IN
                       IF r.result # Ok THEN r
                       ELSE upload_plant_file_v3_run(
                                retries_left - 1, Rest(answers, t.store.some),
                                [r EXCEPT !.result = Pending])
                  ELSE [sent EXCEPT
                          !.result = ReadAndClassify("upload_plant_file_v3", res)]

\* A store and the answers to a first request, a refresh and a second
\* request.
RunInputs(stores) ==
    {[fn |-> "run", store |-> st, answers |-> Answers(<<r1, r2>>, <<rr>>)] :
        st \in stores, r1 \in PlainResponses, r2 \in PlainResponses,
        rr \in RefreshResponses}

(***************************************************************************)
(* The functions of the client that touch neither the store nor the        *)
(* network, each applied to one input of a bounded set.                    *)
(***************************************************************************)
ApiErrorInputs ==
    {[fn |-> "api_error", status |-> s, body |-> b] :
        s \in {x \in Statuses : ~IsSuccess(x)}, b \in ErrorBodies}

MetricsInputs == {[fn |-> "metrics", doc |-> d] : d \in MetricsDocs}

\* A body in chunks; fails is the call of chunk() that ends with a transport
\* error, 0 when none does.
ReadInputs ==
    {[fn |-> "read_body_limited", chunks |-> s, fails |-> f] :
        s \in ChunkSizes(MaxChunks), f \in 0..MaxChunks}

\* An error of the path builder as the `?` of a call returns it (728).
CallError(k) == [kind |-> k, status |-> 0, title |-> ""]

\* How far get_metrics_by_date_v3 (705-731) came: the path builder refused
\* the path; the send or the body read failed; the body was too large; the
\* refresh after a 401 was refused; the status was not 2xx; or a 2xx body,
\* a JSON document, arrived.
PanelInputs ==
    {[fn |-> "get_panel_metrics", at |-> "path", err |-> CallError(k),
      doc |-> JValue(JNull)] : k \in {"InvalidPath", "Url"}}
    \cup {[fn |-> "get_panel_metrics", at |-> "transport", err |-> ErrRequest,
           doc |-> JValue(JNull)]}
    \cup {[fn |-> "get_panel_metrics", at |-> "too_large", err |-> ErrResponseTooLarge,
           doc |-> JValue(JNull)]}
    \cup {[fn |-> "get_panel_metrics", at |-> "refresh", err |-> ErrUnauthorized,
           doc |-> JValue(JNull)]}
    \cup {[fn |-> "get_panel_metrics", at |-> "status",
           err |-> api_error(s, Classified(b)), doc |-> JValue(JNull)] :
            s \in {x \in Statuses : ~IsSuccess(x)},
            b \in {RawText("<html>Bad Gateway</html>"),
                   JsonText(JObj([NoMembers EXCEPT !["title"] = JStr("Bad Request")]))}}
    \cup {[fn |-> "get_panel_metrics", at |-> "body", err |-> Ok, doc |-> d] :
            d \in MetricsDocs}

\* Mutant: a PanelIntraday body without data gives an empty result.
get_panel_metrics_default_data(input) ==
    IF input.at # "body" THEN input.err
    ELSE LET metrics == MetricsBody_deserialize(input.doc) IN
         IF metrics.kind = "Err" THEN ErrSerialization
         ELSE IF metrics.variant = "PanelIntraday" THEN Ok ELSE ErrApi(500)

\* Client::get_panel_metrics (608-634): the error of
\* get_metrics_by_date_v3 is returned by `?`, a body that does not decode
\* is execute_json's Serialization error (364), and the decoded body is
\* matched.
get_panel_metrics(input) ==
    IF input.at # "body" THEN input.err
    ELSE LET metrics == MetricsBody_deserialize(input.doc) IN
         IF metrics.kind = "Err" THEN ErrSerialization
         ELSE IF metrics.variant = "PanelIntraday"
              THEN (IF Get(metrics.doc, "data").t = "array" THEN Ok ELSE ErrApi(500))
              ELSE ErrApi(500)

FnInputs ==
    ApiErrorInputs \cup MetricsInputs \cup ReadInputs \cup BaseUrlInputs
    \cup PanelInputs \cup DebugValues

InitFn ==
    /\ ClientInit
    /\ LockInit
    /\ ubase = BaseUrl(<<"/">>)
    /\ uin = <<>>
    /\ uphase = "idle"
    /\ uenc = <<>>
    /\ uout = NoResult
    /\ fin \in FnInputs
    /\ fphase = "input"
    /\ fout = NoInput

\* Client::api_error(status, body)
\* Mutant: a problem document that states a status gives the error its own.
api_error_call_document_status ==
    /\ fphase = "input"
    /\ fin.fn = "api_error"
    /\ fout' = [err |-> LET e == api_error(fin.status, Classified(fin.body))
                            st == Get(fin.body.doc, "status") IN
                        IF e.kind = "ApiProblem" /\ st.t = "number" /\ st.s # ""
                        THEN [e EXCEPT !.status = IF st.s = "500" THEN 500 ELSE 401]
                        ELSE e,
                message |-> IF ErrorModelParses(fin.body) THEN ""
                            ELSE ApiMessage(fin.status, fin.body)]
    /\ fphase' = "api_error"
    /\ UNCHANGED <<fin, evars, uvars, lvars>>

api_error_call ==
    /\ fphase = "input"
    /\ fin.fn = "api_error"
    /\ fout' = [err |-> api_error(fin.status, Classified(fin.body)),
                message |-> IF ErrorModelParses(fin.body) THEN ""
                            ELSE ApiMessage(fin.status, fin.body)]
    /\ fphase' = "api_error"
    /\ UNCHANGED <<fin, evars, uvars, lvars>>

\* serde_json::from_slice::<MetricsBody>(..) of a body that is JSON
metrics_decode ==
    /\ fphase = "input"
    /\ fin.fn = "metrics"
    /\ fout' = MetricsBody_deserialize(fin.doc)
    /\ fphase' = "metrics"
    /\ UNCHANGED <<fin, evars, uvars, lvars>>

\* let mut body = Vec::new() (421)
read_body_limited ==
    /\ fphase = "input"
    /\ fin.fn = "read_body_limited"
    /\ fout' = Reading(<<>>, 1)
    /\ fphase' = "reading"
    /\ UNCHANGED <<fin, evars, uvars, lvars>>

\* One turn of the loop (422-427): res.chunk().await? fails, ends the stream
\* or hands over a chunk, which is refused or appended.
chunk ==
    /\ fphase = "reading"
    /\ IF fin.fails = fout.next
       THEN fout' = ReadErr("Request", fout.body) /\ fphase' = "read"
       ELSE IF fout.next > Len(fin.chunks)
       THEN fout' = ReadOk(fout.body) /\ fphase' = "read"
       ELSE IF Exceeds(Len(fout.body), fin.chunks[fout.next])
       THEN fout' = ReadErr("ResponseTooLarge", fout.body) /\ fphase' = "read"
       ELSE /\ fout' = Reading(Extend(fout.body, fin.chunks[fout.next]),
                               fout.next + 1)
            /\ fphase' = "reading"
    /\ UNCHANGED <<fin, evars, uvars, lvars>>

\* Client::new(base_url)
new ==
    /\ fphase = "input"
    /\ fin.fn = "new"
    /\ fout' = [kind |-> new_with_timeout(fin)]
    /\ fphase' = "new"
    /\ UNCHANGED <<fin, evars, uvars, lvars>>

\* Client::get_panel_metrics(plant_id, date)
get_panel_metrics_call ==
    /\ fphase = "input"
    /\ fin.fn = "get_panel_metrics"
    /\ fout' = get_panel_metrics(fin)
    /\ fphase' = "get_panel_metrics"
    /\ UNCHANGED <<fin, evars, uvars, lvars>>

\* execute_text(Method::GET, url, decode_json_string), from the 2xx status
\* and the body read to the text it returns (399-413).
execute_text_ok ==
    /\ fphase = "input"
    /\ fin.fn = "execute_text"
    /\ fout' = [kind |-> "Ok",
                text |-> execute_text_body(decode_json_string_of(fin.endpoint),
                                           fin.header, fin.body)]
    /\ fphase' = "execute_text"
    /\ UNCHANGED <<fin, evars, uvars, lvars>>

\* The same store and the same answers handed to execute_json (304-312),
\* execute_text and upload_plant_file_v3.
run_executors ==
    /\ fphase = "input"
    /\ fin.fn = "run"
    /\ fout' = [json |-> execute_json_internal_run(TRUE, TRUE, 1, fin.answers,
                                                   Run(fin.store)),
                text |-> execute_text_run(1, fin.answers, Run(fin.store)),
                upload |-> upload_plant_file_v3_run(1, fin.answers, Run(fin.store))]
    /\ fphase' = "run"
    /\ UNCHANGED <<fin, evars, uvars, lvars>>

\* format!("{:?}", value)
fmt_call ==
    /\ fphase = "input"
    /\ fin.fn = "fmt"
    /\ fout' = fmt(fin)
    /\ fphase' = "fmt"
    /\ UNCHANGED <<fin, evars, uvars, lvars>>

NextFn ==
    \/ new
    \/ fmt_call
    \/ get_panel_metrics_call
    \/ api_error_call
    \/ metrics_decode
    \/ read_body_limited
    \/ chunk

SpecFn == InitFn /\ [][NextFn]_vars

\* A function applied to one of the inputs.
FnStart(inputs) ==
    /\ ClientInit
    /\ LockInit
    /\ ubase = BaseUrl(<<"/">>)
    /\ uin = <<>>
    /\ uphase = "idle"
    /\ uenc = <<>>
    /\ uout = NoResult
    /\ fin \in inputs
    /\ fphase = "input"
    /\ fout = NoInput

\* execute_text handed a 2xx answer.
InitText == FnStart(TextInputs(MaxBody))
SpecText == InitText /\ [][execute_text_ok]_vars

\* The three executor loops handed a store and the answers of the network.
InitRun == FnStart(RunInputs(Sessions))
SpecRun == InitRun /\ [][run_executors]_vars

(***************************************************************************)
(* An endpoint call from its start: get_plant_v3 (502-506) builds its path *)
(* from the plant id, hands it to Client::url and, unless `?` returns the  *)
(* error, enters execute_json.  The callers share a client that holds a    *)
(* session or none.                                                        *)
(***************************************************************************)
PlantIds == Texts(1) \cup {<<".", ".">>, <<"x", "/", "x">>}

\* Mutant: the request is made whatever Client::url returned.
get_plant_v3_call_unchecked(p, plant_id) ==
    /\ pc[p] = "idle"
    /\ started < MaxCalls
    /\ started' = started + 1
    /\ uin' = plant_id
    /\ uenc' = encode_path_segment(plant_id)
    /\ uout' = url(ubase, PlantPath(plant_id))
    /\ uphase' = "plant"
    /\ kind' = [kind EXCEPT ![p] = "execute_json"]
    /\ refreshCalls' = [refreshCalls EXCEPT ![p] = 0]
    /\ pc' = [pc EXCEPT ![p] = "attach"]
    /\ retries' = [retries EXCEPT ![p] = 1]
    /\ UNCHANGED <<auth, authed, req, newtok, result, sends, refreshSends,
                   firstAuthed401, refreshOk, lastResp, delta>>
    /\ UNCHANGED <<logins, lineage, sentLineage>>
    /\ UNCHANGED <<ubase, lvars, fvars>>

get_plant_v3_call(p, plant_id) ==
    /\ pc[p] = "idle"
    /\ started < MaxCalls
    /\ started' = started + 1
    /\ uin' = plant_id
    /\ uenc' = encode_path_segment(plant_id)
    /\ uout' = url(ubase, PlantPath(plant_id))
    /\ uphase' = "plant"
    /\ kind' = [kind EXCEPT ![p] = "execute_json"]
    /\ refreshCalls' = [refreshCalls EXCEPT ![p] = 0]
    /\ IF uout'.kind = "Ok"
       THEN /\ pc' = [pc EXCEPT ![p] = "attach"]
            /\ retries' = [retries EXCEPT ![p] = 1]
            /\ UNCHANGED result
       ELSE /\ Finish(p, CallError(uout'.kind))
            /\ UNCHANGED retries
    /\ UNCHANGED <<auth, authed, req, newtok, sends, refreshSends,
                   firstAuthed401, refreshOk, lastResp, delta>>
    /\ UNCHANGED <<logins, lineage, sentLineage>>
    /\ UNCHANGED <<ubase, lvars, fvars>>

InitCall ==
    /\ auth \in {None, AuthState(1, "manager")}
    /\ logins = (IF auth.some THEN 1 ELSE 0)
    /\ lineage = [token |-> logins, account |-> logins]
    /\ pc = [p \in Callers |-> "idle"]
    /\ kind = [p \in Callers |-> "none"]
    /\ retries = [p \in Callers |-> 0]
    /\ authed = [p \in Callers |-> FALSE]
    /\ req = [p \in Callers |-> NoRequest]
    /\ newtok = [p \in Callers |-> None]
    /\ result = [p \in Callers |-> Pending]
    /\ sends = [p \in Callers |-> 0]
    /\ refreshCalls = [p \in Callers |-> 0]
    /\ refreshSends = [p \in Callers |-> 0]
    /\ firstAuthed401 = [p \in Callers |-> FALSE]
    /\ refreshOk = [p \in Callers |-> FALSE]
    /\ lastResp = [p \in Callers |-> NoResponse]
    /\ delta = [p \in Callers |-> "none"]
    /\ sentLineage = [p \in Callers |-> 0]
    /\ started = 0
    /\ ubase = BaseUrl(<<"/", "p">>)
    /\ uin = <<>>
    /\ uphase = "idle"
    /\ uenc = <<>>
    /\ uout = NoResult
    /\ LockInit
    /\ FnIdle

NextCall ==
    \/ \E p \in Callers, plant_id \in PlantIds : get_plant_v3_call(p, plant_id)
    \/ \E p \in Callers : execute_send(p)
    \/ \E p \in Callers, resp \in PlainResponses : execute_recv(p, resp)
    \/ \E p \in Callers : refresh_token_read(p)
    \/ \E p \in Callers, resp \in RefreshResponses : refresh_token_recv(p, resp)
    \/ \E p \in Callers : refresh_token_write(p)
    \/ \E p \in Callers : Return(p)

SpecCall == InitCall /\ [][NextCall]_vars

(***************************************************************************)
(* get_metrics_by_date_v3 (705-731) from its start: four identifiers are   *)
(* encoded into the path, the unit and the interval into one segment with  *)
(* a '-' between them, and the URL is built with the date as its query.    *)
(* One of the four parameters is handed the identifier id, the others the  *)
(* values of a well-formed call.                                           *)
(***************************************************************************)
MetricsPath(plant_id, source, unit, interval) ==
    <<"a", "p", "i", "/", "v", "3", "/", "p", "l", "a", "n", "t", "s", "/">>
        \o encode_path_segment(plant_id)
        \o <<"/", "m", "e", "t", "r", "i", "c", "s", "/">>
        \o encode_path_segment(source)
        \o <<"/">> \o encode_path_segment(unit)
        \o <<"-">> \o encode_path_segment(interval)

MetricsParams == {"plant_id", "source", "unit", "interval"}
Identifiers ==
    {<<"x">>, <<"2">>, <<"x", "-", "2">>, <<"_", "~">>, <<".">>, <<".", ".">>,
     <<"/">>, <<"\\">>, <<"x", "/", "x">>, <<" ">>}
MetricsArgs(param, id) ==
    [[plant_id |-> <<"x">>, source |-> <<"x">>, unit |-> <<"x">>,
      interval |-> <<"2">>] EXCEPT ![param] = id]

get_metrics_by_date_v3_call(p, param, id) ==
    LET a == MetricsArgs(param, id) IN
    /\ pc[p] = "idle"
    /\ started < MaxCalls
    /\ started' = started + 1
    /\ uin' = id
    /\ uenc' = encode_path_segment(id)
    /\ uout' = url_with_query(ubase,
                              MetricsPath(a.plant_id, a.source, a.unit, a.interval),
                              <<<<<<"d", "a", "t", "e">>, <<"2">>>>>>)
    /\ uphase' = param
    /\ kind' = [kind EXCEPT ![p] = "execute_json"]
    /\ refreshCalls' = [refreshCalls EXCEPT ![p] = 0]
    /\ IF uout'.kind = "Ok"
       THEN /\ pc' = [pc EXCEPT ![p] = "attach"]
            /\ retries' = [retries EXCEPT ![p] = 1]
            /\ UNCHANGED result
       ELSE /\ Finish(p, CallError(uout'.kind))
            /\ UNCHANGED retries
    /\ UNCHANGED <<auth, authed, req, newtok, sends, refreshSends,
                   firstAuthed401, refreshOk, lastResp, delta>>
    /\ UNCHANGED <<logins, lineage, sentLineage>>
    /\ UNCHANGED <<ubase, lvars, fvars>>

NextWrapper ==
    \/ \E p \in Callers, param \in MetricsParams, id \in Identifiers :
          get_metrics_by_date_v3_call(p, param, id)
    \/ \E p \in Callers : execute_send(p)
    \/ \E p \in Callers, resp \in PlainResponses : execute_recv(p, resp)
    \/ \E p \in Callers : refresh_token_read(p)
    \/ \E p \in Callers, resp \in RefreshResponses : refresh_token_recv(p, resp)
    \/ \E p \in Callers : refresh_token_write(p)
    \/ \E p \in Callers : Return(p)

SpecWrapper == InitCall /\ [][NextWrapper]_vars

(***************************************************************************)
(* Client::url_with_query applied to the paths the metrics wrapper builds  *)
(* and to lists of at most n pairs.                                        *)
(***************************************************************************)
QueryKeys == {<<"d", "a", "t", "e">>, <<"p", "a", "g", "e">>}
QueryValues == {<<"2">>, <<"x", " ", "x">>, <<"&">>, <<"=">>, <<"x", ",", "x">>}

RECURSIVE QueryLists(_)
QueryLists(n) ==
    IF n = 0 THEN {<<>>}
    ELSE QueryLists(n - 1)
         \cup {<<<<k, v>>>> \o q : k \in QueryKeys, v \in QueryValues,
                                   q \in QueryLists(n - 1)}

QueryInputs(n) ==
    {[fn |-> "url_with_query", path |-> pa, query |-> q] :
        pa \in {MetricsPath(<<"x">>, id, <<"x">>, <<"2">>) : id \in Identifiers},
        q \in QueryLists(n)}

\* self.url_with_query(&path, &q)
url_with_query_call ==
    /\ fphase = "input"
    /\ fin.fn = "url_with_query"
    /\ fout' = url_with_query(ubase, fin.path, fin.query)
    /\ fphase' = "url_with_query"
    /\ UNCHANGED <<fin, evars, uvars, lvars>>

InitQuery == FnStart(QueryInputs(MaxPairs))
SpecQuery == InitQuery /\ [][url_with_query_call]_vars

(***************************************************************************)
(* The claims about the executor, the logins and the refresh protocol.     *)
(***************************************************************************)
IsApiError(r, status) == r.kind \in {"Api", "ApiProblem"} /\ r.status = status

\* C1: for every call that includes auth and allows refresh (execute_json,
\* execute_text, upload_plant_file_v3): when the first send carried a session
\* token and was answered 401, refresh_token is invoked exactly once (and at
\* most one refresh request goes out); when that refresh succeeded, the call
\* ends after exactly two sends; when the retried send is answered 401 too
\* (its body read), there is no second refresh and the call fails with the
\* classifier's error for status 401.  No call sends more than twice.
C1_SingleRefreshSingleRetry ==
    \A p \in Callers : kind[p] \in ExecKinds =>
        /\ sends[p] <= 2
        /\ refreshCalls[p] <= 1
        /\ refreshSends[p] <= refreshCalls[p]
        /\ (firstAuthed401[p] => refreshCalls[p] = 1)
        /\ (pc[p] = "done" /\ refreshOk[p] => sends[p] = 2)
        /\ (pc[p] = "done" /\ sends[p] = 2 /\ lastResp[p].io = "ok"
              /\ lastResp[p].status = 401
            => refreshCalls[p] = 1 /\ IsApiError(result[p], 401))

\* A call whose first send was answered 401, whose refresh succeeded and
\* whose retried send was answered 401 again.
C1_Witness ==
    \E p \in Callers :
        /\ kind[p] \in ExecKinds /\ pc[p] = "done"
        /\ firstAuthed401[p] /\ refreshOk[p] /\ refreshSends[p] = 1
        /\ sends[p] = 2 /\ lastResp[p].io = "ok" /\ lastResp[p].status = 401
        /\ IsApiError(result[p], 401)

\* C2: when the refresh triggered by a 401 fails, the call ends with the
\* refresh's failure after its single send: a refresh answered 401 or 403
\* gives Unauthorized; a refresh answered with any other non-2xx status (body
\* read) gives the classifier's error with that status and, when the body is
\* a problem document with a title, that title; never Unauthorized.
C2_RefreshFailureSurfaces ==
    \A p \in Callers :
        (kind[p] \in ExecKinds /\ pc[p] = "done" /\ refreshCalls[p] = 1 /\ ~refreshOk[p])
        => /\ sends[p] = 1
           /\ (refreshSends[p] = 1 /\ lastResp[p].io # "send_error"
                 /\ lastResp[p].status \in {401, 403}
               => result[p] = ErrUnauthorized)
           /\ (refreshSends[p] = 1 /\ lastResp[p].io = "ok"
                 /\ ~IsSuccess(lastResp[p].status)
                 /\ lastResp[p].status \notin {401, 403}
               => /\ IsApiError(result[p], lastResp[p].status)
                  /\ (lastResp[p].problem = "titled"
                      => result[p].kind = "ApiProblem"
                         /\ result[p].title = lastResp[p].title))

\* A call whose refresh was answered 500 with a titled problem document.
C2_Witness ==
    \E p \in Callers :
        /\ kind[p] \in ExecKinds /\ pc[p] = "done"
        /\ refreshSends[p] = 1 /\ ~refreshOk[p] /\ sends[p] = 1
        /\ lastResp[p].status = 500 /\ lastResp[p].problem = "titled"
        /\ result[p] = ErrApiProblem(500, "refresh failed")

\* C3: in the step in which a login call (login, login_v2_manager,
\* login_v2_viewer) returns: if it returns Ok the store holds a session whose
\* token is the login response's; if it returns an API error of status 401 or
\* 403 the store is empty.
C3_LoginStoresOrClears ==
    [][\A p \in Callers :
          (kind[p] \in LoginKinds /\ pc[p] # "done" /\ pc'[p] = "done")
          => /\ (result'[p] = Ok
                 => auth'.some /\ auth'.token = lastResp[p].token)
             /\ ((IsApiError(result'[p], 401) \/ IsApiError(result'[p], 403))
                 => auth' = None)]_vars

\* One login has succeeded and another, answered 403, has cleared the
\* session the first one stored.
C3_Witness ==
    \E p, q \in Callers :
        /\ kind[p] \in LoginKinds /\ pc[p] = "done" /\ result[p] = Ok
        /\ kind[q] \in LoginKinds /\ pc[q] = "done" /\ IsApiError(result[q], 403)
        /\ delta[q] = "cleared" /\ auth = None

\* C4: a login request in flight carries no auth headers whatever the store
\* holds; a login call never invokes refresh_token and sends once; a login
\* answered 401 (body read) fails with the classifier's error for 401.
C4_LoginCarriesNoSession ==
    \A p \in Callers : kind[p] \in LoginKinds =>
        /\ (req[p].target # "none" => req[p].target = "login" /\ ~req[p].hdr.some)
        /\ refreshCalls[p] = 0 /\ refreshSends[p] = 0
        /\ sends[p] <= 1
        /\ (pc[p] \in {"done", "login_clear"} /\ lastResp[p].io = "ok"
              /\ lastResp[p].status = 401
            => IsApiError(result[p], 401))

\* A login request is in flight while the store holds a session.
C4_Witness ==
    \E p \in Callers :
        /\ kind[p] \in LoginKinds /\ pc[p] = "sent" /\ auth.some
        /\ req[p].target = "login" /\ ~req[p].hdr.some

\* C8: refresh_token reading an empty store returns Unauthorized in that
\* step, sends no request and leaves the store as it is.
C8_RefreshWithoutSession ==
    [][\A p \in Callers :
          (pc[p] = "refresh_read" /\ pc'[p] \notin {"refresh_read", "cancelled"}
             /\ ~auth.some)
          => /\ pc'[p] = "done" /\ result'[p] = ErrUnauthorized
             /\ refreshSends'[p] = refreshSends[p]
             /\ req'[p] = NoRequest
             /\ auth' = auth]_vars

\* A direct refresh_token call has failed with Unauthorized without a
\* request.
C8_Witness ==
    \E p \in Callers :
        /\ kind[p] = "refresh_token" /\ pc[p] = "done"
        /\ result[p] = ErrUnauthorized /\ refreshSends[p] = 0 /\ ~auth.some

\* C9: the write of a successful refresh keeps the slot present or absent as
\* it was, keeps its account_type, and sets the token of a present session to
\* the token of the refresh response.
C9_RefreshWritesTokenOnly ==
    [][\A p \in Callers :
          (pc[p] = "refresh_write" /\ pc'[p] \notin {"refresh_write", "cancelled"})
          => /\ auth'.some = auth.some
             /\ auth'.account_type = auth.account_type
             /\ (auth.some => auth'.token = lastResp[p].token)]_vars

\* A refresh has replaced the token of the stored session by another one.
C9_Witness ==
    \E p \in Callers :
        /\ refreshOk[p] /\ delta[p] = "token"
        /\ auth.some /\ auth.token = lastResp[p].token
        /\ pc[p] = "attach"

\* C10 as stated: a call that fails with a transport error has left the
\* session as it was when the call started.
C10_Original ==
    \A p \in Callers :
        (pc[p] = "done" /\ result[p] = ErrRequest) => delta[p] = "none"

\* C10 as amended: a call that fails with a transport error on its primary
\* send or on the refresh sub-call has not changed the session; one that
\* fails on the retried send has changed at most the token, by the write of
\* its successful refresh.
C10_TransportFailureFrame ==
    \A p \in Callers :
        (pc[p] = "done" /\ result[p] = ErrRequest)
        => IF sends[p] = 2
           THEN refreshOk[p] /\ delta[p] \in {"none", "token"}
           ELSE delta[p] = "none"

\* A call whose retried send failed at the transport level after its refresh
\* had replaced the token.
C10_Witness ==
    \E p \in Callers :
        /\ pc[p] = "done" /\ result[p] = ErrRequest /\ lastResp[p].io = "send_error"
        /\ sends[p] = 2 /\ delta[p] = "token"

\* C11: a call (request, login or refresh) that its caller has abandoned
\* before any response or transport outcome reached it has written nothing
\* to the store; and the step that abandons a call, wherever the call is
\* suspended, leaves the store as it is.
C11_CancelledCallWritesNothing ==
    [][\A p \in Callers :
          /\ (pc'[p] = "cancelled" /\ lastResp'[p] = NoResponse => delta'[p] = "none")
          /\ (pc[p] # "cancelled" /\ pc'[p] = "cancelled" => auth' = auth)]_vars

\* A login and a request were abandoned with their requests in flight, and a
\* refresh before its request went out, while the store held a session.
C11_Witness ==
    \E p \in Callers :
        /\ pc[p] = "cancelled" /\ lastResp[p] = NoResponse /\ auth.some
        /\ \/ kind[p] \in LoginKinds /\ sends[p] = 1
           \/ kind[p] \in ExecKinds /\ sends[p] = 1 /\ authed[p]
           \/ kind[p] = "refresh_token" /\ refreshSends[p] = 1

\* C27: a call that includes auth and whose snapshot found the store empty
\* is sent without the two auth headers; its 401 answer starts no refresh
\* and no second send (a call sends a second time only after a first send
\* that carried a token); and, the body of the 401 read, the call fails
\* with the classifier's error for status 401.
C27_NoSessionNoRefresh ==
    \A p \in Callers : kind[p] \in ExecKinds =>
        /\ (sends[p] >= 2 => firstAuthed401[p])
        /\ (sends[p] = 1 /\ ~authed[p]
            => /\ (pc[p] = "sent" => req[p] = Request("primary", None))
               /\ refreshCalls[p] = 0 /\ refreshSends[p] = 0
               /\ pc[p] \in {"sent", "done", "cancelled"}
               /\ (pc[p] = "done" /\ lastResp[p].io = "ok" /\ lastResp[p].status = 401
                   => result[p] = api_error(401, lastResp[p])))

\* A call that includes auth was sent from an empty store, was answered 401
\* with a problem document, and has failed with ApiProblem after one send.
C27_Witness ==
    \E p \in Callers :
        /\ kind[p] \in ExecKinds /\ pc[p] = "done"
        /\ sends[p] = 1 /\ ~authed[p] /\ refreshCalls[p] = 0
        /\ lastResp[p].io = "ok" /\ lastResp[p].status = 401
        /\ lastResp[p].problem = "titled"
        /\ result[p] = ErrApiProblem(401, "refresh failed")

\* C28: a logical call that was started ends, or is abandoned by its
\* caller; it makes at most two sends of the primary request and at most
\* one refresh_token call; its retry counter is 1 or 0; and the executor
\* loop invokes refresh_token in exactly the steps that take the counter
\* from 1 to 0.
C28_BoundedRetryTerminates ==
    /\ \A p \in Callers : (pc[p] # "idle") ~> (pc[p] \in {"done", "cancelled"})
    /\ [](\A p \in Callers :
            sends[p] <= 2 /\ refreshCalls[p] <= 1 /\ retries[p] \in {0, 1})
    /\ [][\A p \in Callers :
            /\ retries'[p] # retries[p] /\ pc[p] # "idle" /\ pc'[p] # "idle"
               => /\ retries[p] = 1 /\ retries'[p] = 0
                  /\ refreshCalls'[p] = refreshCalls[p] + 1
                  /\ pc'[p] = "refresh_read"
            /\ refreshCalls'[p] > refreshCalls[p] /\ pc[p] # "idle"
               => retries[p] = 1 /\ retries'[p] = 0]_vars

\* A call has ended after two sends and one refresh, its counter at 0.
C28_Witness ==
    \E p \in Callers :
        /\ kind[p] \in ExecKinds /\ pc[p] = "done"
        /\ sends[p] = 2 /\ refreshCalls[p] = 1 /\ retries[p] = 0

\* C29: in the step in which the primary send, the refresh request or the
\* retried send of a call fails at the transport level (no status arrives,
\* or the read of a body the call reads breaks off), the call ends with the
\* transport error; and a call that has ended with it sends nothing more,
\* neither a primary request nor a refresh request.
C29_TransportFailureEndsCall ==
    [][\A p \in Callers :
          /\ (/\ pc[p] \in {"sent", "refresh_sent"}
              /\ pc'[p] \notin {pc[p], "cancelled"}
              /\ \/ lastResp'[p].io = "send_error"
                 \/ /\ lastResp'[p].io = "body_error"
                    /\ ~(pc[p] = "refresh_sent" /\ lastResp'[p].status \in {401, 403}))
             => /\ pc'[p] = "done" /\ result'[p] = ErrRequest
                /\ req'[p] = NoRequest
                /\ sends'[p] = sends[p] /\ refreshSends'[p] = refreshSends[p]
                /\ refreshCalls'[p] = refreshCalls[p]
          /\ (pc[p] = "done" /\ result[p] = ErrRequest
             => /\ pc'[p] \in {"done", "idle"}
                /\ req'[p] = NoRequest
                /\ (pc'[p] = "done"
                    => /\ sends'[p] = sends[p] /\ refreshSends'[p] = refreshSends[p]
                       /\ result'[p] = result[p]))]_vars

\* The refresh request of a call failed at the transport level and the call
\* has ended with that error after its one send.
C29_Witness ==
    \E p \in Callers :
        /\ kind[p] \in ExecKinds /\ pc[p] = "done" /\ result[p] = ErrRequest
        /\ sends[p] = 1 /\ refreshCalls[p] = 1 /\ refreshSends[p] = 1
        /\ lastResp[p].io = "send_error" /\ auth.some

\* C30: in the step in which the request of a call (a login or an executor
\* call, with a token or without) is answered with a status that is neither
\* 2xx nor 401, the call invokes no refresh and ends without another send;
\* outside the logins the store stays as it is; and, the body read, the
\* call fails with the classifier's error for that status and body.
C30_OtherStatusFailsAtOnce ==
    [][\A p \in Callers :
          (/\ pc[p] = "sent" /\ pc'[p] \notin {"sent", "cancelled"}
           /\ lastResp'[p].io # "send_error"
           /\ ~IsSuccess(lastResp'[p].status) /\ lastResp'[p].status # 401)
          => /\ refreshCalls'[p] = refreshCalls[p] /\ refreshSends'[p] = refreshSends[p]
             /\ sends'[p] = sends[p] /\ retries'[p] = retries[p]
             /\ req'[p] = NoRequest
             /\ auth' = auth
             /\ (kind[p] \notin LoginKinds => pc'[p] = "done" /\ delta'[p] = delta[p])
             /\ (kind[p] \in LoginKinds => pc'[p] \in {"done", "login_clear"})
             /\ (lastResp'[p].io = "ok"
                 => /\ result'[p] = api_error(lastResp'[p].status, lastResp'[p])
                    /\ result'[p].status = lastResp'[p].status)]_vars

\* A call sent with the token of the stored session was answered 403 and
\* has failed with the opaque error for 403 after one send, the session
\* still stored.
C30_Witness ==
    \E p \in Callers :
        /\ kind[p] \in ExecKinds /\ pc[p] = "done"
        /\ authed[p] /\ sends[p] = 1 /\ refreshCalls[p] = 0
        /\ lastResp[p].io = "ok" /\ lastResp[p].status = 403
        /\ result[p] = ErrApi(403)
        /\ auth.some /\ delta[p] = "none"

\* C31: in the step in which a login call fails for a reason other than an
\* API error of status 401 or 403 (no status arrived, the read of the body
\* broke off or went over the limit, another status was answered, the 2xx
\* body did not decode), the call returns that failure without a write: the
\* store is as it was before the step, and the call has not changed it.
C31_LoginFailureKeepsStore ==
    [][\A p \in Callers :
          (/\ kind[p] \in LoginKinds
           /\ pc[p] = "sent" /\ pc'[p] \notin {"sent", "cancelled"}
           /\ \/ lastResp'[p].io # "ok"
              \/ IsSuccess(lastResp'[p].status) /\ ~lastResp'[p].decodes
              \/ ~IsSuccess(lastResp'[p].status) /\ lastResp'[p].status \notin {401, 403})
          => /\ pc'[p] = "done"
             /\ result'[p] \notin {Pending, Ok}
             /\ ~IsApiError(result'[p], 401) /\ ~IsApiError(result'[p], 403)
             /\ auth' = auth
             /\ delta'[p] = "none"]_vars

\* A login was answered 2xx with a body that does not decode and has failed
\* with the decode error; the session stored before it is still there.
C31_Witness ==
    \E p \in Callers :
        /\ kind[p] \in LoginKinds /\ pc[p] = "done"
        /\ result[p] = ErrSerialization /\ lastResp[p].status = 200
        /\ delta[p] = "none" /\ auth = AuthState(1, "manager")

(***************************************************************************)
(* The claims about concurrent calls on a client that holds a session.     *)
(***************************************************************************)
\* C33: when one call runs alone on a client that holds a session, and its
\* refresh has succeeded, the retried send carries the token of the refresh
\* response and the account type the session had before the call: the
\* store's content at that time, read again, not the headers of the first
\* send.
C33_RetryCarriesRefreshedToken ==
    \A p \in Callers :
        (started = 1 /\ kind[p] \in ExecKinds /\ sends[p] = 2 /\ pc[p] = "sent")
        => /\ refreshOk[p] /\ firstAuthed401[p]
           /\ lastResp[p].decodes /\ IsSuccess(lastResp[p].status)
           /\ req[p] = Request("primary", AuthState(lastResp[p].token, "manager"))
           /\ req[p].hdr = auth

\* The retried send of a call running alone is in flight with the token 2
\* of the refresh response; the first send carried the token 1.
C33_Witness ==
    \E p \in Callers :
        /\ started = 1 /\ kind[p] \in ExecKinds /\ sends[p] = 2 /\ pc[p] = "sent"
        /\ lastResp[p].token = 2
        /\ req[p].hdr = AuthState(2, "manager")

\* C34: the write of a successful refresh never makes an empty store hold a
\* session.  When the store is empty at the write (a login that failed with
\* 401 or 403 has cleared it since the refresh read it), the store stays
\* empty, the refresh returns Ok all the same, and the call that invoked it
\* goes on to its retried send, which reads the empty store and goes out
\* without the two auth headers.
C34_RefreshKeepsStoreAbsent ==
    [][\A p \in Callers :
          /\ (pc[p] = "refresh_write" /\ pc'[p] \notin {"refresh_write", "cancelled"}
              => /\ (auth'.some <=> auth.some)
                 /\ refreshOk'[p]
                 /\ (~auth.some
                     => /\ auth' = None
                        /\ delta'[p] = delta[p]
                        /\ (kind[p] = "refresh_token"
                            => pc'[p] = "done" /\ result'[p] = Ok)
                        /\ (kind[p] \in ExecKinds
                            => pc'[p] = "attach" /\ result'[p] = Pending)))
          /\ (/\ kind[p] \in ExecKinds /\ refreshOk[p]
              /\ pc[p] = "attach" /\ pc'[p] = "sent" /\ ~auth.some
              => /\ req'[p] = Request("primary", None)
                 /\ ~authed'[p]
                 /\ sends'[p] = 2)]_vars

\* A login answered 403 has cleared the session while the refresh request of
\* a call was in flight; the refresh has succeeded without storing anything,
\* and the retried send of the call is in flight without auth headers.
C34_Witness ==
    \E p, q \in Callers :
        /\ kind[q] \in LoginKinds /\ pc[q] = "done" /\ delta[q] = "cleared"
        /\ IsApiError(result[q], 403)
        /\ kind[p] \in ExecKinds /\ pc[p] = "sent" /\ sends[p] = 2
        /\ firstAuthed401[p] /\ refreshOk[p] /\ delta[p] = "none"
        /\ req[p] = Request("primary", None)
        /\ auth = None

\* The refresh response resp is a 2xx whose body is over the size limit or
\* does not decode to a token.
UnusableRefresh(resp) ==
    /\ IsSuccess(resp.status)
    /\ \/ resp.io = "too_large"
       \/ resp.io = "ok" /\ ~resp.decodes

\* C36: in the step in which the refresh request of a call is answered 2xx
\* with a body over the size limit or a body that does not decode to a
\* token, the refresh fails with the response-too-large error or with the
\* decode error, the store stays as it is, and the call that invoked the
\* refresh ends with that error; such a call has sent its primary request
\* once and has not changed the store.
C36_UnusableRefreshFailsCall ==
    /\ [][\A p \in Callers :
            (/\ pc[p] = "refresh_sent" /\ pc'[p] \notin {"refresh_sent", "cancelled"}
             /\ UnusableRefresh(lastResp'[p]))
            => /\ pc'[p] = "done"
               /\ result'[p] = IF lastResp'[p].io = "too_large"
                                THEN ErrResponseTooLarge ELSE ErrSerialization
               /\ auth' = auth
               /\ ~refreshOk'[p]
               /\ sends'[p] = sends[p] /\ req'[p] = NoRequest]_vars
    /\ [](\A p \in Callers :
            (/\ kind[p] \in ExecKinds /\ pc[p] = "done"
             /\ refreshSends[p] = 1 /\ ~refreshOk[p] /\ UnusableRefresh(lastResp[p]))
            => /\ sends[p] = 1 /\ delta[p] = "none"
               /\ result[p] \in {ErrResponseTooLarge, ErrSerialization})

\* The refresh of a call was answered 2xx with a body over the limit; the
\* call has failed with the response-too-large error after its one send,
\* and the session is the one stored before the call.
C36_Witness ==
    \E p \in Callers :
        /\ kind[p] \in ExecKinds /\ pc[p] = "done"
        /\ refreshSends[p] = 1 /\ sends[p] = 1
        /\ lastResp[p].io = "too_large" /\ lastResp[p].status = 200
        /\ result[p] = ErrResponseTooLarge
        /\ auth = AuthState(1, "manager")

\* C13: whenever the store holds a session, its token descends from the
\* login that stored its account type: by that login itself or by refreshes
\* of that login's token.
C13_SessionConsistent ==
    auth.some => lineage.token = lineage.account

\* C14: every refresh-eligible call whose first send carried a token and was
\* answered 401 invokes refresh_token itself, whatever the other callers are
\* doing; no call invokes it more than once, none invokes it without such a
\* 401, and so the refresh invocations of the executor calls under way never
\* outnumber the calls whose first send was answered 401.
C14_RefreshPerCall ==
    /\ \A p \in Callers : kind[p] \in ExecKinds =>
          /\ refreshCalls[p] <= 1
          /\ (refreshCalls[p] = 1 <=> firstAuthed401[p])
          /\ refreshSends[p] <= refreshCalls[p]
    /\ Cardinality({p \in Callers : kind[p] \in ExecKinds /\ refreshCalls[p] = 1})
          <= Cardinality({p \in Callers : kind[p] \in ExecKinds /\ firstAuthed401[p]})

\* Two calls were answered 401 on sends that carried the same token, and the
\* refresh request of each is in flight at the same time.
C14_Witness ==
    \E p, q \in Callers :
        /\ p # q
        /\ kind[p] \in ExecKinds /\ kind[q] \in ExecKinds
        /\ firstAuthed401[p] /\ firstAuthed401[q]
        /\ pc[p] = "refresh_sent" /\ pc[q] = "refresh_sent"
        /\ req[p].target = "refresh" /\ req[q].target = "refresh"
        /\ req[p].hdr = req[q].hdr

(***************************************************************************)
(* The claims about the store's lock.                                      *)
(***************************************************************************)
\* C12: at no instant is a write guard of the store held together with
\* another guard, read or write; the copy a reader has completed under its
\* guard is the whole content of the store at that instant, a session or
\* nothing; and a request that was sent carries the copy's session, token and
\* account type together, or no auth header at all.
C12_ReaderWriterExclusion ==
    /\ Cardinality(writers) <= 1
    /\ (writers # {} => readers = {})
    /\ \A p \in Callers :
          /\ (lpc[p] = "cloned" => p \in readers /\ snap[p] = auth /\ auth \in Sessions)
          /\ (lpc[p] = "attach" => snap[p] \in Sessions)
          /\ (req[p].target # "none"
              => req[p].hdr = snap[p] /\ req[p].hdr \in Sessions)

\* A reader has completed its copy of a present session, under its guard,
\* while a writer waits for the lock with the data of a login.
C12_Witness ==
    \E p, q \in Callers :
        /\ lpc[p] = "cloned" /\ lop[p].op = "snapshot" /\ snap[p].some
        /\ lpc[q] = "want_write" /\ lop[q].op = "login"
        /\ lop[q].token # auth.token

\* The steps a caller takes under a guard, up to the guard's release: none
\* of them is an .await.
UnderGuard == {"reading", "cloning", "cloned", "writing", "half", "written"}
GuardedStep(p) ==
    \/ clone_token(p) \/ clone_account_type(p) \/ read_release(p)
    \/ write_token(p) \/ write_account_type(p) \/ write_none(p)
    \/ write_release(p)

\* C35: a caller holds a guard of the store's lock only during the
\* in-memory steps of an access, never while it builds or sends a request
\* and never while a request of its own is in flight; a caller under a guard
\* can always take its next step, up to the release; a caller that waits for
\* the lock either can have it or waits for a caller that is under a guard.
\* So no state is a deadlock: while an access is under way, some access can
\* take a step.
C35_NoLockAcrossNetwork ==
    /\ \A p \in Callers :
          /\ (p \in readers \cup writers <=> lpc[p] \in UnderGuard)
          /\ (p \in readers \cup writers => req[p] = NoRequest)
          /\ (lpc[p] \in {"attach", "idle"} => p \notin readers \cup writers)
          /\ (lpc[p] \in UnderGuard => ENABLED GuardedStep(p))
          /\ (lpc[p] \in {"want_read", "want_write"}
              => \/ ENABLED (read(p) \/ write(p))
                 \/ \E q \in Callers \ {p} :
                       q \in readers \cup writers /\ ENABLED GuardedStep(q))
    /\ ((\E p \in Callers : lpc[p] # "idle")
        => ENABLED (\E p \in Callers :
                      read(p) \/ write(p) \/ GuardedStep(p) \/ send(p)))

\* The request of one caller is in flight, sent with its copy of the
\* session, while another caller holds the write guard.
C35_Witness ==
    \E p, q \in Callers :
        /\ req[p].target = "primary" /\ req[p].hdr.some /\ lpc[p] = "idle"
        /\ p \notin readers \cup writers
        /\ lpc[q] = "writing" /\ writers = {q}

(***************************************************************************)
(* The claims about the error classifier, the decoders and construction.   *)
(***************************************************************************)
\* What api_error returns for the body fin.body would be the same for body b.
SameApiError(b) ==
    /\ api_error(fin.status, Classified(b)) = fout.err
    /\ ApiMessage(fin.status, b) = fout.message

\* C15: api_error(status, body) is ApiProblem with the status when the body
\* parses as a problem document, with the body's title or, when it has none,
\* "API Error"; for any other body it is the opaque Api error with the
\* status, and error and message are those of every other body that is not a
\* problem document: nothing of the body is in them.
C15_ClassifierRedacts ==
    fphase = "api_error" =>
        IF ErrorModelParses(fin.body)
        THEN /\ fout.err.kind = "ApiProblem"
             /\ fout.err.status = fin.status
             /\ fout.err.title =
                  (IF Get(fin.body.doc, "title").t = "string"
                   THEN Get(fin.body.doc, "title").s ELSE "API Error")
        ELSE /\ fout.err = ErrApi(fin.status)
             /\ \A b \in ErrorBodies : ~ErrorModelParses(b) => SameApiError(b)

\* The classifier has been applied to a text that is not JSON, and to a JSON
\* object whose title is not a string.
C15_Witness ==
    /\ fphase = "api_error"
    /\ ~ErrorModelParses(fin.body)
    /\ fout.err = ErrApi(500)
    /\ \/ fin.body.raw = "secret=very-sensitive-token"
       \/ fin.body.json /\ Get(fin.body.doc, "title").t = "number"

\* C38: an ApiProblem error that api_error returns has the HTTP status of
\* the response, whether the problem document states no status, the same
\* one or another; and every body that is a JSON object whose title, status
\* and detail are absent, null or of their type (a string, a number, a
\* string) gives ApiProblem, never the opaque error.
C38_ProblemStatusIsHttpStatus ==
    fphase = "api_error" =>
        /\ (fout.err.kind = "ApiProblem" => fout.err.status = fin.status)
        /\ (/\ fin.body.json /\ fin.body.doc.t = "object"
            /\ Get(fin.body.doc, "title").t \in {"absent", "null", "string"}
            /\ Get(fin.body.doc, "status").t \in {"absent", "null", "number"}
            /\ Get(fin.body.doc, "detail").t \in {"absent", "null", "string"}
            => /\ fout.err.kind = "ApiProblem"
               /\ fout.err.status = fin.status
               /\ fout.err # ErrApi(fin.status))

\* The classifier was applied to a 403 response whose problem document
\* states the status 500 and no title.
C38_Witness ==
    /\ fphase = "api_error"
    /\ fin.status = 403
    /\ Get(fin.body.doc, "status") = JInt("500")
    /\ Get(fin.body.doc, "title") = Absent
    /\ fout.err = ErrApiProblem(403, "API Error")

\* The variant the claim assigns to each of the six pairs.
VariantOf(unit, interval) ==
    CASE unit = "panel" /\ interval = "5m" -> "PanelIntraday"
      [] unit = "panel" /\ interval = "day" -> "PanelDaily"
      [] unit = "inverter" /\ interval = "5m" -> "InverterIntraday"
      [] unit = "inverter" /\ interval = "day" -> "InverterDaily"
      [] unit = "plant" /\ interval = "5m" -> "PlantIntraday"
      [] unit = "plant" /\ interval = "day" -> "PlantAggregated"

\* C16: the decoder gives every JSON document a result.  When unit and
\* interval are strings forming one of the six pairs, the result is the
\* pair's variant holding the document, or a decode failure, which it is
\* exactly when a required string is missing or mistyped or data or before
\* has a wrong type; it is never Unknown.  For every other document the
\* result is Unknown holding the document as it was, never a failure.
C16_MetricsDispatch ==
    fphase = "metrics" =>
        LET unit == Get(fin.doc, "unit")
            interval == Get(fin.doc, "interval")
        IN  /\ fout.kind \in {"Ok", "Err"}
            /\ IF /\ unit.t = "string" /\ unit.s \in {"panel", "inverter", "plant"}
                  /\ interval.t = "string" /\ interval.s \in {"5m", "day"}
               THEN /\ fout.variant # "Unknown"
                    /\ (fout.kind = "Ok"
                        => fout = MetricsOk(VariantOf(unit.s, interval.s), fin.doc))
                    /\ (fout.kind = "Err"
                        <=> \/ Get(fin.doc, "plant_id").t # "string"
                            \/ Get(fin.doc, "data").t \in {"string", "number"}
                            \/ /\ Get(fin.doc, "data").t = "array"
                               /\ ~ElementsDecode(Get(fin.doc, "data").s,
                                     ElementType(VariantOf(unit.s, interval.s))))
               ELSE fout = MetricsOk("Unknown", fin.doc)

\* A panel/5m document without its plant_id has failed to decode, and a
\* document whose unit is not a string has become Unknown.
C16_Witness ==
    /\ fphase = "metrics"
    /\ \/ /\ Get(fin.doc, "unit") = JStr("panel")
          /\ Get(fin.doc, "interval") = JStr("5m")
          /\ Get(fin.doc, "plant_id") = Absent
          /\ fout = MetricsErr
       \/ /\ Get(fin.doc, "unit") = JNum
          /\ Get(fin.doc, "interval") = JStr("5m")
          /\ fout = MetricsOk("Unknown", fin.doc)

\* C17: while a body is read and when the read has ended, the buffer never
\* holds more than the maximum; a body of at most the maximum, delivered
\* without a transport error, is returned whole, its bytes in order; a body
\* of one byte or more over the maximum, delivered without a transport
\* error, ends the read with ResponseTooLarge.
C17_BoundedBodyRead ==
    fphase \in {"reading", "read"} =>
        /\ Len(fout.body) <= DEFAULT_MAX_RESPONSE_BYTES
        /\ (fphase = "read" /\ fin.fails = 0
            => IF Sum(fin.chunks) <= DEFAULT_MAX_RESPONSE_BYTES
               THEN fout = ReadOk([j \in 1..Sum(fin.chunks) |-> j])
               ELSE fout.kind = "ResponseTooLarge")

\* A body of exactly the maximum, in more than one chunk, has been read
\* whole.
C17_Witness ==
    /\ fphase = "read"
    /\ fin.fails = 0
    /\ Len(fin.chunks) > 1
    /\ Sum(fin.chunks) = DEFAULT_MAX_RESPONSE_BYTES
    /\ fout.kind = "Ok"
    /\ Len(fout.body) = DEFAULT_MAX_RESPONSE_BYTES

\* C18: a client is constructed exactly when the base URL has a host, no
\* query and no fragment, and its scheme is https, or is http with the host
\* localhost or a loopback address, 127.0.0.0/8 or ::1.
C18_ConstructionIff ==
    fphase = "new" =>
        (fout.kind = "Ok"
         <=> /\ fin.parses
             /\ fin.host.kind # "none"
             /\ ~fin.query.some /\ ~fin.fragment.some
             /\ \/ fin.scheme = "https"
                \/ /\ fin.scheme = "http"
                   /\ \/ fin.host = Domain("localhost")
                      \/ fin.host \in {Ipv4("127.0.0.1"), Ipv4("127.8.8.8"), Ipv6("::1")})

\* The category of the taxonomy a failure belongs to, by its cause: a
\* refused path is InvalidPath, a failed send or body read Transport, a
\* refused refresh Unauthorized, a status other than 2xx an API error, and
\* a 2xx body that does not decode, is not the PanelIntraday variant or has
\* no data a Decode failure.  (A body over the size limit has a kind and a
\* category of its own.)
CauseCategory(input) ==
    CASE input.at = "path" -> "InvalidPath"
      [] input.at = "transport" -> "Transport"
      [] input.at = "too_large" -> "TooLarge"
      [] input.at = "refresh" -> "Unauthorized"
      [] input.at = "status" -> "Api"
      [] OTHER -> "Decode"

\* The category an error kind stands for.
KindCategory(k) ==
    CASE k \in {"InvalidPath", "Url"} -> "InvalidPath"
      [] k = "Request" -> "Transport"
      [] k = "ResponseTooLarge" -> "TooLarge"
      [] k = "Unauthorized" -> "Unauthorized"
      [] k \in {"Api", "ApiProblem"} -> "Api"
      [] OTHER -> "Decode"

\* C20: the kind of the error a failed get_panel_metrics returns tells the
\* category of the failure: an error of kind Api or ApiProblem is a status
\* other than 2xx, and a decode or shape failure has the kind Serialization.
C20_KindTellsCategory ==
    fphase = "get_panel_metrics" /\ fout # Ok
    => KindCategory(fout.kind) = CauseCategory(fin)

\* C21: get_panel_metrics, handed a 2xx JSON body, returns panel data only
\* when the body decodes to the PanelIntraday variant (unit "panel", interval
\* "5m") and its data is present, an array; when the body decodes to any
\* other variant, Unknown included, or its data is null or absent, the call
\* returns an error.
C21_PanelDataOrError ==
    (fphase = "get_panel_metrics" /\ fin.at = "body") =>
        LET metrics == MetricsBody_deserialize(fin.doc) IN
        /\ (fout = Ok
            => /\ Get(fin.doc, "unit") = JStr("panel")
               /\ Get(fin.doc, "interval") = JStr("5m")
               /\ Get(fin.doc, "data").t = "array")
        /\ ((\/ metrics.kind = "Ok" /\ metrics.variant # "PanelIntraday"
             \/ Get(fin.doc, "data").t \in {"null", "absent"})
            => fout.kind \in {"Api", "Serialization"})
        /\ fout.kind \in {"Ok", "Api", "Serialization"}

\* get_panel_metrics was handed a panel/5m body whose data is null, and a
\* body of another variant with its data, and returned an error for each.
C21_Witness ==
    /\ fphase = "get_panel_metrics" /\ fin.at = "body"
    /\ fout = ErrApi(500)
    /\ Get(fin.doc, "plant_id").t = "string"
    /\ \/ /\ Get(fin.doc, "unit") = JStr("panel")
          /\ Get(fin.doc, "interval") = JStr("5m")
          /\ Get(fin.doc, "data") = JNull
       \/ /\ Get(fin.doc, "unit") = JStr("inverter")
          /\ Get(fin.doc, "interval") = JStr("5m")
          /\ Get(fin.doc, "data") = JArr("InverterData")

\* The content types that indicate JSON: application/json, with or without
\* parameters and in either case, and the types with the +json suffix.
IndicatesJson(header) ==
    header \in ContentTypeHeaders \ {NoHeader, OpaqueHeader,
                                      Header(<<"t", "e", "x", "t", "/", "p", "l", "a",
                                               "i", "n">>)}

\* C22 as stated: a 2xx answer to either text endpoint whose content type
\* indicates JSON and whose body is a bare JSON string gives the decoded
\* string, and every other 2xx answer the raw body decoded as text.
C22_Original ==
    fphase = "execute_text" =>
        fout.text = (IF IndicatesJson(fin.header) /\ from_slice_String(fin.body).ok
                     THEN from_slice_String(fin.body).text
                     ELSE from_utf8_lossy(fin.body))

\* C22 as amended: that holds of get_blueprint_text_v3; a 2xx answer to
\* get_blueprint_text_v2 always gives the raw body decoded as text, a bare
\* JSON string with its quotes and escapes.
C22_TextPayload ==
    fphase = "execute_text" =>
        /\ fout.kind = "Ok"
        /\ fout.text =
              (IF /\ fin.endpoint = "get_blueprint_text_v3"
                  /\ IndicatesJson(fin.header)
                  /\ from_slice_String(fin.body).ok
               THEN from_slice_String(fin.body).text
               ELSE from_utf8_lossy(fin.body))

\* The v3 endpoint has decoded a JSON string with an escape sent as
\* application/json in upper case, and the v2 endpoint has returned a JSON
\* string as it was sent.
C22_Witness ==
    /\ fphase = "execute_text"
    /\ \/ /\ fin.endpoint = "get_blueprint_text_v3"
          /\ fin.header.present /\ fin.header.visible /\ fin.header.text[1] = "A"
          /\ fin.body = <<"\"", "\\", "n", "\"">>
          /\ fout.text = <<"\n">>
       \/ /\ fin.endpoint = "get_blueprint_text_v2"
          /\ IndicatesJson(fin.header)
          /\ fin.body = <<"\"", "a", "\"">>
          /\ fout.text = fin.body

\* Two runs have the same requests with the same auth headers, the same
\* refresh calls and requests, and the same writes of the store.
SameProtocol(a, b) ==
    /\ a.sends = b.sends
    /\ a.refreshes = b.refreshes
    /\ a.refreshSends = b.refreshSends
    /\ a.writes = b.writes
    /\ a.store = b.store

\* C23 as stated: on the same store and the same answers, the JSON
\* executor (auth included, refresh allowed), the raw-text path and the
\* multipart upload make the same sends, refresh calls and store writes and
\* end with a result of the same kind.
C23_Original ==
    fphase = "run" =>
        /\ SameProtocol(fout.json, fout.text) /\ SameProtocol(fout.json, fout.upload)
        /\ fout.text.result.kind = fout.json.result.kind
        /\ fout.upload.result.kind = fout.json.result.kind

\* C23 as amended: the three make the same sends, refresh calls and store
\* writes; the upload ends with the JSON executor's result; and the raw-text
\* path ends with it too, except that a last answer with a 2xx status whose
\* body was read and is not the JSON the other two expect makes them fail
\* with Serialization while the raw-text path returns the body.
C23_SameProtocol ==
    fphase = "run" =>
        /\ SameProtocol(fout.json, fout.text) /\ SameProtocol(fout.json, fout.upload)
        /\ fout.upload.result = fout.json.result
        /\ LET last == fin.answers.primary[Len(fout.json.sends)] IN
           IF last.io = "ok" /\ IsSuccess(last.status) /\ ~last.decodes
           THEN fout.json.result = ErrSerialization /\ fout.text.result = Ok
           ELSE fout.text.result = fout.json.result

\* The three were run on a session and a first answer of 401: the refresh
\* replaced the token, the second request carried it, and its 2xx answer
\* did not decode.
C23_Witness ==
    /\ fphase = "run"
    /\ fin.store = AuthState(1, "viewer")
    /\ fout.json.sends = <<AuthState(1, "viewer"), AuthState(2, "viewer")>>
    /\ fout.text.refreshSends = <<AuthState(1, "viewer")>>
    /\ fout.upload.writes = <<AuthState(2, "viewer")>>
    /\ fout.json.result = ErrSerialization
    /\ fout.text.result = Ok

\* C26: the Debug output of an auth model or of the stored session holds
\* the placeholder <redacted>, and it is the output of every value of the
\* type that differs from the formatted one in its password or token only.
C26_DebugRedacts ==
    fphase = "fmt" =>
        /\ \E i \in DOMAIN fout[2] : fout[2][i][2] = DebugStr(<<"<redacted>">>)
        /\ \A other \in DebugValues :
              (other.type = fin.type /\ other.public = fin.public)
              => fmt(other) = fout

\* A stored session and a login body have been formatted, each with a
\* secret that differs from the secret of another value with the same other
\* fields.
C26_Witness ==
    /\ fphase = "fmt"
    /\ fin.type \in {"AuthState", "AuthWithPasswordBody"}
    /\ fin.secret = SomeText(<<"tok-xyz">>)
    /\ \E other \in DebugValues :
          /\ other.type = fin.type /\ other.public = fin.public
          /\ other.secret # fin.secret
    /\ fout[2][IF fin.type = "AuthState" THEN 1 ELSE 2][2] = DebugStr(<<"<redacted>">>)

(***************************************************************************)
(* The claims about an endpoint call from its start.                       *)
(***************************************************************************)
\* C25: the step in which a caller starts get_plant_v3 with a plant id
\* whose path Client::url refuses is the step in which the call returns
\* InvalidPath: no request has been sent or is in flight, the store has been
\* neither read nor written, and the retry loop was not entered.
C25_InvalidPathBeforeNetwork ==
    [][\A p \in Callers :
          (pc[p] = "idle" /\ pc'[p] # "idle"
             /\ (UnsafeSegment(encode_path_segment(uin'))
                 \/ Contains(PlantPath(uin'), <<":", "/", "/">>)))
          => /\ pc'[p] = "done"
             /\ result'[p].kind = "InvalidPath"
             /\ sends'[p] = 0 /\ refreshCalls'[p] = 0 /\ refreshSends'[p] = 0
             /\ req'[p] = NoRequest /\ retries'[p] = 0
             /\ ~authed'[p] /\ delta'[p] = "none"
             /\ auth' = auth]_vars

\* A call with the plant id ".." has returned InvalidPath on a client that
\* holds a session, while the request of another call is in flight.
C25_Witness ==
    \E p, q \in Callers :
        /\ pc[p] = "done" /\ result[p].kind = "InvalidPath" /\ sends[p] = 0
        /\ uin = <<".", ".">> /\ uout.kind = "InvalidPath"
        /\ auth.some
        /\ pc[q] = "sent" /\ req[q].hdr = auth

\* An identifier that could leave its segment, and one made of the
\* characters encode_path_segment passes through.
IsDotId(id) == id \in {<<".">>, <<".", ".">>}
HasSeparator(id) == "/" \in Range(id) \/ "\\" \in Range(id)
IsUnreservedId(id) ==
    Range(id) \subseteq Lower \cup Upper \cup Digits \cup {"-", "_", "~"}

\* The call has returned InvalidPath in the step that started it: nothing
\* was sent, the store was not read and the retry loop was not entered.
RefusedAtStart(p) ==
    /\ pc'[p] = "done" /\ result'[p].kind = "InvalidPath"
    /\ uout'.kind = "InvalidPath"
    /\ sends'[p] = 0 /\ refreshCalls'[p] = 0 /\ refreshSends'[p] = 0
    /\ req'[p] = NoRequest /\ retries'[p] = 0
    /\ ~authed'[p] /\ auth' = auth

\* C37 as stated: get_metrics_by_date_v3 started with an identifier that is
\* "." or ".." or holds '/' or '\', in any of its four parameters, returns
\* InvalidPath before a request is sent.
C37_Original ==
    [][\A p \in Callers :
          (pc[p] = "idle" /\ pc'[p] # "idle" /\ uphase' \in MetricsParams
             /\ (IsDotId(uin') \/ HasSeparator(uin')))
          => RefusedAtStart(p)]_vars

\* C37 as amended: an identifier that holds '/' or '\', in any parameter,
\* and an identifier "." or ".." that makes a path segment of its own (the
\* plant id, the source) make the call return InvalidPath before a request
\* is sent.  An identifier "." or ".." that is one part of a segment (the
\* unit, the interval) is embedded in its encoded form and the call goes
\* on: the segment is not a dot segment.  An identifier made of letters,
\* digits, '-', '_' and '~' is embedded as it is and the call goes on.
C37_UnsafeIdentifierRefused ==
    [][\A p \in Callers :
          (pc[p] = "idle" /\ pc'[p] # "idle" /\ uphase' \in MetricsParams)
          => LET a == MetricsArgs(uphase', uin')
                 segments == <<<<"p">>, <<"a", "p", "i">>, <<"v", "3">>,
                               <<"p", "l", "a", "n", "t", "s">>, a.plant_id,
                               <<"m", "e", "t", "r", "i", "c", "s">>, a.source,
                               a.unit \o <<"-">> \o a.interval>>
             IN
             /\ (HasSeparator(uin') => RefusedAtStart(p))
             /\ (IsDotId(uin') /\ uphase' \in {"plant_id", "source"}
                 => RefusedAtStart(p))
             /\ (IsDotId(uin') /\ uphase' \in {"unit", "interval"}
                 => /\ uout'.kind = "Ok" /\ pc'[p] = "attach"
                    /\ "." \notin Range(uenc')
                    /\ Len(uout'.url.path) = Len(segments)
                    /\ Contains(uout'.url.path[Len(segments)], uenc'))
             /\ (IsUnreservedId(uin')
                 => /\ uenc' = uin'
                    /\ uout'.kind = "Ok" /\ pc'[p] = "attach"
                    /\ uout'.url.path = segments)]_vars

\* One call has returned InvalidPath without a request, and the request of
\* a call with the unit ".." is in flight: the URL's last segment is
\* "%2E%2E-2".
C37_Witness ==
    \E p, q \in Callers :
        /\ pc[p] = "done" /\ result[p].kind = "InvalidPath" /\ sends[p] = 0
        /\ pc[q] = "sent" /\ sends[q] = 1
        /\ uphase = "unit" /\ uin = <<".", ".">>
        /\ uout.kind = "Ok"
        /\ uout.url.path[8] = <<"%", "2", "E", "%", "2", "E", "-", "2">>

(***************************************************************************)
(* The claims about the path functions.                                    *)
(***************************************************************************)
\* The text Client::url was called with.
UrlArg == IF uphase = "plant" THEN PlantPath(uin) ELSE uin

\* The ways of writing a dot, zero or one percent-decoding away, and the
\* segments that are "." or ".." written so.
DotWritings == {<<".">>, <<"%", "2", "e">>, <<"%", "2", "E">>}
DotSegments == DotWritings \cup {a \o b : a, b \in DotWritings}
\* A backslash, and the separators written as escapes.
SeparatorWritings ==
    {<<"\\">>, <<"%", "2", "f">>, <<"%", "2", "F">>, <<"%", "5", "c">>,
     <<"%", "5", "C">>}

\* Some '/'-separated segment of path is a dot segment or holds a separator.
HasTraversal(path) ==
    \/ \E w \in SeparatorWritings : Contains(path, w)
    \/ \E i, j \in DOMAIN path :
          /\ i <= j
          /\ SubSeq(path, i, j) \in DotSegments
          /\ (i = 1 \/ path[i - 1] = "/")
          /\ (j = Len(path) \/ path[j + 1] = "/")

\* C5: Client::url fails with InvalidPath for every path with a segment that
\* is "." or ".." as written or after one percent-decoding (hex digits of
\* either case), or that holds a backslash or an encoded '/' or '\'.
C5_TraversalRejected ==
    (uphase \in {"url", "plant"} /\ HasTraversal(UrlArg))
    => uout.kind = "InvalidPath"

\* Client::url has rejected a path whose only segment is ".." written with
\* escapes of both cases.
C5_Witness ==
    /\ uphase = "url"
    /\ uin = <<"%", "2", "e", "%", "2", "E">>
    /\ uout.kind = "InvalidPath"

IsPrefix(s, t) == Len(s) <= Len(t) /\ SubSeq(t, 1, Len(s)) = s

\* C6: every URL Client::url returns has the scheme and the host (with the
\* port) of the base URL and a path under the base URL's path.
C6_UrlUnderBase ==
    (uphase = "url" /\ uout.kind = "Ok")
    => /\ uout.url.scheme = ubase.scheme
       /\ uout.url.host = ubase.host
       /\ IsPrefix(Pop(ubase.path), uout.url.path)

PathSegments(path) ==
    LET segments == Split(TrimStart(UrlInput(path), {"/"}), {"/"}) IN
    [i \in DOMAIN segments |-> PathEncode(segments[i])]

\* C24: the stored base URL's path ends in a separator, with or without one
\* in the configured base URL, and the path of every URL Client::url returns
\* is the base URL's path, its prefix included, followed by the relative
\* path.
C24_PrefixPreserved ==
    /\ ubase.path # <<>> /\ ubase.path[Len(ubase.path)] = <<>>
    /\ (uphase = "url" /\ uout.kind = "Ok"
        => uout.url.path = Pop(ubase.path) \o PathSegments(uin))

\* The separators a path starts with, and a path made of separators and of
\* characters a URL path keeps as they are.
LeadingSeparators(path) == Len(path) - Len(TrimStart(path, {"/"}))
IsPlainPath(path) == Range(path) \subseteq {"/", "x", "2"}

FormDecode(text) ==
    decode_utf8_lossy(percent_decode_str(
        [i \in DOMAIN text |-> IF text[i] = "+" THEN " " ELSE text[i]]))
QueryPair(piece) ==
    LET at == {i \in DOMAIN piece : piece[i] = "="} IN
    IF at = {} THEN <<FormDecode(piece), <<>>>>
    ELSE <<FormDecode(SubSeq(piece, 1, Min(at) - 1)),
           FormDecode(DropFirst(piece, Min(at)))>>
query_pairs(query) ==
    LET pieces == SelectSeq(Split(query, {"&"}), LAMBDA piece : piece # <<>>) IN
    [i \in DOMAIN pieces |-> QueryPair(pieces[i])]

\* C39: the query of the URL url_with_query returns holds the caller's
\* pairs as key=value, all of them and no other, in the caller's order,
\* duplicates included; the rest of the URL is what Client::url returns for
\* the path; and for a path Client::url refuses the result is its
\* InvalidPath, without a URL and without a query.
C39_QueryInCallerOrder ==
    fphase = "url_with_query" =>
        IF url(ubase, fin.path).kind = "Ok"
        THEN /\ fout.kind = "Ok"
             /\ fout.url = url(ubase, fin.path).url
             /\ query_pairs(fout.query) = fin.query
             /\ Len(SelectSeq(fout.query, LAMBDA ch : ch = "=")) = Len(fin.query)
        ELSE /\ fout = ErrInvalidPath
             /\ url(ubase, fin.path) = ErrInvalidPath

\* A URL was built with the same key twice, the first value holding '&'.
C39_Witness ==
    /\ fphase = "url_with_query"
    /\ fin.query = <<<<<<"d", "a", "t", "e">>, <<"&">>>>,
                     <<<<"d", "a", "t", "e">>, <<"2">>>>>>
    /\ fout.kind = "Ok"
    /\ fout.query = <<"d", "a", "t", "e", "=", "%", "2", "6", "&",
                      "d", "a", "t", "e", "=", "2">>

\* C19: Client::url returns a URL or fails with InvalidPath, whatever text it
\* is handed.
C19_OnlyInvalidPath ==
    uphase \in {"url", "plant"} => uout.kind \in {"Ok", "InvalidPath"}

====
